---- MODULE Spec2Model ----
(***************************************************************************)
(* Model of the deterministic tariff-stacking evaluator of                 *)
(* TariffOptimizer2 (src/stacking_logic.py).                               *)
(*                                                                         *)
(* Numbers.  The program computes with Python floats; the model computes   *)
(* the same expressions exactly, over integers:                            *)
(*   - a rate is held in percent (25 stands for the fraction 0.25);        *)
(*   - a percentage answer is held as the number the slider gives (0..);   *)
(*   - a money amount is held in units of 1/AmountScale of the currency    *)
(*     unit, the smallest unit in which every product the code forms       *)
(*     (value x rate, value x pct/100 x rate, value x (rate - rebate) x    *)
(*     (1 - share)) is an integer.                                         *)
(* Text.  A reasoning string is held as its literal text up to the first   *)
(* interpolated value; Python's None is the string "None".                 *)
(* Dictionaries are functions whose DOMAIN is the set of keys present.     *)
(***************************************************************************)
EXTENDS Integers, Sequences, FiniteSets, TLC

VARIABLES
    tariffs,                 \* argument of the last analyze_stacking call
    answers,                 \* argument: dict question id -> typed answer
    product_info,            \* argument: [origin_country, value]
    outcome,                 \* "idle", "returned" or "raised"
    results,                 \* the returned list (<<>> when raised)
    hts_based_232_applies,   \* local of analyze_stacking at its exit
    section_232_results,     \* local of analyze_stacking at its exit
    earlier,                 \* history: one earlier call, remembered at will
    response,                \* totals of the evaluation endpoint's response
    questions,               \* the list returned by get_required_questions
    raw_answers,             \* the client's answers, keyed by question index
    catalog,                 \* result of analyze_stacking_with_exemptions
    parsed                   \* one normalized answer

vars == <<tariffs, answers, product_info, outcome, results,
          hts_based_232_applies, section_232_results, earlier,
          response, questions, raw_answers, catalog, parsed>>

----------------------------------------------------------------------------
(* Record shapes *)

\* a detected tariff before its amount is known
Kind(category, code, name, rate) ==
    [category |-> category, code |-> code, name |-> name, rate |-> rate]

\* a detected tariff: the dict built upstream
DetectedTariff(category, code, name, rate, amount) ==
    [category |-> category, code |-> code, name |-> name, rate |-> rate,
     amount |-> amount]

\* product_info
ProductInfo(origin_country, value) ==
    [origin_country |-> origin_country, value |-> value]

\* the analysis dict of a category logic
Verdict(excluded, exemption_code, reasoning, final_amount) ==
    [excluded |-> excluded, exemption_code |-> exemption_code,
     reasoning |-> reasoning, final_amount |-> final_amount]

\* the condition of a conditional question
Conditional(value, depends_on) == [value |-> value, depends_on |-> depends_on]

\* a question of the planner (prompt and help texts left out)
Question(id, index, type) == [id |-> id, index |-> index, type |-> type]

ConditionalQuestion(id, index, type, conditional) ==
    [id |-> id, index |-> index, type |-> type, conditional |-> conditional]

\* a rule of the exemption catalog (description, HS codes and references
\* left out)
ExemptionRule(code, name, effect, conditions) ==
    [code |-> code, name |-> name, effect |-> effect, conditions |-> conditions]

\* an entry of the stacking order of the catalog path
CatalogEntry(category, code, name, rate, amount, excluded, exemption_code, reasoning) ==
    [category |-> category, code |-> code, name |-> name, rate |-> rate,
     amount |-> amount, excluded |-> excluded,
     exemption_code |-> exemption_code, reasoning |-> reasoning]

\* the result of the catalog path (CBP guidance text left out)
CatalogResult(stackingOrder, totalBefore, totalAfter, savings) ==
    [stackingOrder |-> stackingOrder, totalBefore |-> totalBefore,
     totalAfter |-> totalAfter, savings |-> savings]

\* a question as the question endpoint sends it to the client
FormattedQuestion(type, questionId, questionIndex) ==
    [type |-> type, questionId |-> questionId, questionIndex |-> questionIndex]

\* one normalization: the arguments of parse_answer, what it returned, and
\* the parsed_answers of the evaluation endpoint for the same raw answer
Normalization(answer, question_type, returned, parsed_answers) ==
    [answer |-> answer, question_type |-> question_type,
     returned |-> returned, parsed_answers |-> parsed_answers]

\* the totals of an aggregate result
Totals(totalBefore, totalAfter, savings) ==
    [totalBefore |-> totalBefore, totalAfter |-> totalAfter,
     savings |-> savings]

----------------------------------------------------------------------------
(* Units *)

\* money unit: 1 currency unit = AmountScale model units; a rate in millionths
\* (RateScale) times a share in millionths, divided by the common factor 5000
\* of all such products the automotive logic forms
RateScale == 100 * 10000

AmountScale == (RateScale \div 5000) * RateScale

\* value x rate, rate in percent
FullAmount(value, rate) == value * rate * (AmountScale \div 100)

\* value x (pct / 100.0) x rate, rate in percent
PortionAmount(value, pct, rate) == value * pct * rate * (AmountScale \div 10000)

----------------------------------------------------------------------------
(* Dictionaries *)

None == "None"

\* dict.get(key, default)
Get(d, key, default) == IF key \in DOMAIN d THEN d[key] ELSE default

EmptyDict == [k \in {} |-> None]

\* d[key] = value on a dict
Put(d, key, value) ==
    [k \in (DOMAIN d) \cup {key} |-> IF k = key THEN value ELSE d[k]]

----------------------------------------------------------------------------
(* Category priority table *)

STACKING_ORDER ==
    [section_301            |-> 1,
     ieepa_fentanyl         |-> 2,
     section_232_automotive |-> 3,
     section_232_buses      |-> 4,
     section_232_steel      |-> 5,
     section_232_aluminum   |-> 6,
     section_232_copper     |-> 7,
     section_232_lumber     |-> 8,
     ieepa_reciprocal       |-> 9]

\* variant: an unlisted category sorts ahead of the listed ones
SortKeyUnlistedFirst(t) == Get(STACKING_ORDER, t.category, 0)

\* the sort key: STACKING_ORDER.get(t['category'], 999)
SortKey(t) == Get(STACKING_ORDER, t.category, 999)

\* variant: an insertion that places an element before its equals
RECURSIVE InsertBeforeEqual(_, _)
InsertBeforeEqual(t, s) ==
    IF s = <<>> THEN <<t>>
    ELSE IF SortKey(Head(s)) < SortKey(t)
         THEN <<Head(s)>> \o InsertBeforeEqual(t, Tail(s))
         ELSE <<t>> \o s

\* sorted(tariffs, key=...): Python's sort is stable; an insertion sort that
\* places each element after the elements whose key is not greater
RECURSIVE InsertSorted(_, _)
InsertSorted(t, s) ==
    IF s = <<>> THEN <<t>>
    ELSE IF SortKey(Head(s)) <= SortKey(t)
         THEN <<Head(s)>> \o InsertSorted(t, Tail(s))
         ELSE <<t>> \o s

\* variant: the list left in its input order
Unsorted(ts) == ts

RECURSIVE SortedTariffs(_)
SortedTariffs(ts) ==
    IF ts = <<>> THEN <<>>
    ELSE InsertSorted(ts[Len(ts)], SortedTariffs(SubSeq(ts, 1, Len(ts) - 1)))

----------------------------------------------------------------------------
(* Country sets *)

USMCA_COUNTRIES == {"CA", "MX"}

CHINA_COUNTRIES == {"CN", "HK", "MO"}

column_2_countries == {"BY", "CU", "KP", "RU"}

eu_countries ==
    {"AT", "BE", "BG", "HR", "CY", "CZ", "DK", "EE", "FI", "FR",
     "DE", "GR", "HU", "IE", "IT", "LV", "LT", "LU", "MT", "NL",
     "PL", "PT", "RO", "SK", "SI", "ES", "SE"}

special_calculation_countries == eu_countries \cup {"JP", "KR"}

----------------------------------------------------------------------------
(* Verdicts *)

\* the result dict every apply_* function starts from
InitialResult(tariff) == Verdict(FALSE, None, "", tariff.amount)

\* an exception leaving a function instead of a verdict
Raise(exc) == [exception |-> exc]

IsRaise(a) == "exception" \in DOMAIN a

\* variant: the two USMCA codes exchanged
USMCA_CODE_swapped(origin) == IF origin = "CA" THEN "9903.01.27" ELSE "9903.01.26"

USMCA_CODE(origin) == IF origin = "CA" THEN "9903.01.26" ELSE "9903.01.27"

----------------------------------------------------------------------------
(* Section 232, material composition *)

apply_section_232_steel_logic(tariff, ans, pinfo) ==
    LET origin == pinfo.origin_country
        steel_pct == Get(ans, "steel_percentage", 0)
    IN  IF steel_pct = 0
        THEN Verdict(TRUE, "N/A",
                     "NOT APPLICABLE: Product has 0% steel composition", 0)
        ELSE IF origin \in USMCA_COUNTRIES
        THEN IF Get(ans, "usmca_qualified", FALSE)
             THEN Verdict(TRUE, USMCA_CODE(origin),
                          "EXEMPT: USMCA-qualified product from ", 0)
             ELSE Verdict(FALSE, None, "APPLIES: Product from ", tariff.amount)
        ELSE IF Get(ans, "steel_origin_country", "") = "US"
        THEN IF Get(ans, "steel_melted_poured_us", FALSE)
             THEN Verdict(TRUE, "9903.81.92",
                          "EXEMPT: Steel melted and poured in the United States", 0)
             ELSE Verdict(FALSE, None, "APPLIES to ",
                          PortionAmount(pinfo.value, steel_pct, tariff.rate))
        ELSE Verdict(FALSE, None, "APPLIES to ",
                     PortionAmount(pinfo.value, steel_pct, tariff.rate))

apply_section_232_aluminum_logic(tariff, ans, pinfo) ==
    LET origin == pinfo.origin_country
        aluminum_pct == Get(ans, "aluminum_percentage", 0)
    IN  IF aluminum_pct = 0
        THEN Verdict(TRUE, "N/A",
                     "NOT APPLICABLE: Product has 0% aluminum composition", 0)
        ELSE IF origin \in USMCA_COUNTRIES
        THEN IF Get(ans, "usmca_qualified", FALSE)
             THEN Verdict(TRUE, USMCA_CODE(origin),
                          "EXEMPT: USMCA-qualified product from ", 0)
             ELSE Verdict(FALSE, None, "APPLIES: Product from ", tariff.amount)
        ELSE IF Get(ans, "aluminum_origin_country", "") = "US"
        THEN IF Get(ans, "aluminum_smelted_cast_us", FALSE)
             THEN Verdict(TRUE, "US_ORIGIN",
                          "EXEMPT: Aluminum smelted and cast in the United States", 0)
             ELSE Verdict(FALSE, None, "APPLIES to ",
                          PortionAmount(pinfo.value, aluminum_pct, tariff.rate))
        ELSE Verdict(FALSE, None, "APPLIES to ",
                     PortionAmount(pinfo.value, aluminum_pct, tariff.rate))

apply_section_232_copper_logic(tariff, ans, pinfo) ==
    LET origin == pinfo.origin_country
        copper_pct == Get(ans, "copper_percentage", 0)
    IN  IF copper_pct = 0
        THEN Verdict(TRUE, "N/A",
                     "NOT APPLICABLE: Product has 0% copper composition", 0)
        ELSE IF origin \in USMCA_COUNTRIES /\ Get(ans, "usmca_qualified", FALSE)
        THEN Verdict(TRUE, USMCA_CODE(origin),
                     "EXEMPT: USMCA-qualified product from ", 0)
        ELSE Verdict(FALSE, None, "APPLIES to ",
                     PortionAmount(pinfo.value, copper_pct, tariff.rate))

apply_section_232_lumber_logic(tariff, ans, pinfo) ==
    LET lumber_pct == Get(ans, "lumber_percentage", 0)
    IN  IF lumber_pct = 0
        THEN Verdict(TRUE, "N/A",
                     "NOT APPLICABLE: Product has 0% lumber composition", 0)
        ELSE Verdict(FALSE, None, "APPLIES to ",
                     PortionAmount(pinfo.value, lumber_pct, tariff.rate))

----------------------------------------------------------------------------
(* Section 232, HTS classification *)

apply_section_232_buses_logic(tariff, ans, pinfo) ==
    [InitialResult(tariff) EXCEPT
        !.reasoning = "APPLIES: Section 232 Buses tariff at 10% rate (Heading 8702, no USMCA exemptions available)"]

\* 0.0375, in ten-thousandths
AUTO_REBATE_RATE == 375

\* 0.33, in hundredths
US_ASSEMBLY_SHARE == 33

\* 0.40, in hundredths
US_AUTO_CONTENT_SHARE == 40

\* 0.9136 and 0.7145, in ten-thousandths
USMCA_SHARES == [CA |-> 9136, MX |-> 7145]

\* rate - AUTO_REBATE_RATE * US_ASSEMBLY_SHARE, in millionths (rate in percent)
effective_rate(rate) == rate * 10000 - AUTO_REBATE_RATE * US_ASSEMBLY_SHARE

\* usmca_share * US_AUTO_CONTENT_SHARE, in millionths
adjusted_usmca_share(origin) == Get(USMCA_SHARES, origin, 0) * US_AUTO_CONTENT_SHARE

\* value * effective_rate * (1 - adjusted_usmca_share); the two factors are
\* multiples of 125 and of 40, whose product is the 5000 of AmountScale
usmca_automotive_amount(value, rate, origin) ==
    value * (effective_rate(rate) \div 125)
          * ((RateScale - adjusted_usmca_share(origin)) \div 40)

\* value * effective_rate
rebated_automotive_amount(value, rate) ==
    value * effective_rate(rate) * (AmountScale \div RateScale)

apply_section_232_automotive_logic(tariff, ans, pinfo) ==
    LET origin == pinfo.origin_country
    IN  IF origin \in USMCA_COUNTRIES
        THEN IF Get(ans, "usmca_qualified", FALSE)
             THEN Verdict(TRUE, USMCA_CODE(origin),
                          "PARTIALLY EXEMPT: USMCA-qualified automotive from ",
                          usmca_automotive_amount(pinfo.value, tariff.rate, origin))
             ELSE Verdict(FALSE, None, "APPLIES: Automotive from ",
                          rebated_automotive_amount(pinfo.value, tariff.rate))
        ELSE Verdict(FALSE, None,
                     "APPLIES: Automotive tariff with US assembly rebate. ",
                     rebated_automotive_amount(pinfo.value, tariff.rate))

----------------------------------------------------------------------------
(* Section 301 and IEEPA fentanyl *)

\* variant: the manufacturing-equipment answer looked at first
section_301_equipment_first(tariff, ans, pinfo) ==
    IF pinfo.origin_country \notin CHINA_COUNTRIES
    THEN Verdict(TRUE, "N/A",
                 "NOT APPLICABLE: Product not from China/Hong Kong/Macau (origin: ", 0)
    ELSE IF Get(ans, "ustr_manufacturing_equipment", FALSE)
    THEN Verdict(TRUE, "9903.88.70",
                 "EXEMPT: Product classified as manufacturing equipment", 0)
    ELSE IF Get(ans, "ustr_product_exclusion", FALSE)
    THEN Verdict(TRUE, "9903.88.69",
                 "EXEMPT: Product matches one of 164 USTR product-specific exclusions", 0)
    ELSE [InitialResult(tariff) EXCEPT !.reasoning = "APPLIES: Product from "]

apply_section_301_logic(tariff, ans, pinfo) ==
    IF pinfo.origin_country \notin CHINA_COUNTRIES
    THEN Verdict(TRUE, "N/A",
                 "NOT APPLICABLE: Product not from China/Hong Kong/Macau (origin: ", 0)
    ELSE IF Get(ans, "ustr_product_exclusion", FALSE)
    THEN Verdict(TRUE, "9903.88.69",
                 "EXEMPT: Product matches one of 164 USTR product-specific exclusions", 0)
    ELSE IF Get(ans, "ustr_manufacturing_equipment", FALSE)
    THEN Verdict(TRUE, "9903.88.70",
                 "EXEMPT: Product classified as manufacturing equipment", 0)
    ELSE [InitialResult(tariff) EXCEPT !.reasoning = "APPLIES: Product from "]

\* variant: the humanitarian exemption of the reciprocal tree, copied over
fentanyl_with_humanitarian(tariff, ans, pinfo) ==
    IF pinfo.origin_country \notin CHINA_COUNTRIES
    THEN Verdict(TRUE, "N/A",
                 "NOT APPLICABLE: Product not from China/Hong Kong/Macau (origin: ", 0)
    ELSE IF Get(ans, "is_humanitarian_donation", FALSE)
    THEN Verdict(TRUE, "9903.01.30",
                 "EXEMPT: Humanitarian donation (food, clothing, medicine)", 0)
    ELSE [InitialResult(tariff) EXCEPT
            !.reasoning = "APPLIES: IEEPA Fentanyl tariff on 100% of product value (no exemptions available)"]

apply_ieepa_fentanyl_logic(tariff, ans, pinfo) ==
    IF pinfo.origin_country \notin CHINA_COUNTRIES
    THEN Verdict(TRUE, "N/A",
                 "NOT APPLICABLE: Product not from China/Hong Kong/Macau (origin: ", 0)
    ELSE [InitialResult(tariff) EXCEPT
            !.reasoning = "APPLIES: IEEPA Fentanyl tariff on 100% of product value (no exemptions available)"]

----------------------------------------------------------------------------
(* IEEPA reciprocal *)

\* variant: the declared percentage counted whatever the verdict
declared_material_pct(material, key, ans, s232) == Get(ans, key, 0)

\* the declared percentage of a material, counted only when its Section 232
\* verdict of this call is recorded and not excluded
applied_material_pct(material, key, ans, s232) ==
    IF material \in DOMAIN s232 /\ ~Get(s232[material], "excluded", FALSE)
    THEN Get(ans, key, 0)
    ELSE 0

\* variant: lumber left out of the total
total_without_lumber(ans, s232) ==
      applied_material_pct("steel", "steel_percentage", ans, s232)
    + applied_material_pct("aluminum", "aluminum_percentage", ans, s232)
    + applied_material_pct("copper", "copper_percentage", ans, s232)

total_232_material_pct(ans, s232) ==
      applied_material_pct("steel", "steel_percentage", ans, s232)
    + applied_material_pct("aluminum", "aluminum_percentage", ans, s232)
    + applied_material_pct("copper", "copper_percentage", ans, s232)
    + applied_material_pct("lumber", "lumber_percentage", ans, s232)

\* variant: a missing Column-1 rate read as 0
special_calculation_default_0(tariff, ans, pinfo) ==
    IF Get(ans, "column_1_duty_rate", 0) >= 15
    THEN Verdict(TRUE, "N/A", "EXEMPT: ", 0)
    ELSE Raise("UnboundLocalError")

\* the 15% threshold rule for EU, Japan and South Korea.  Its last branch reads
\* the local non_232_pct, which is assigned only further down the function:
\* Python raises UnboundLocalError there.
special_calculation(tariff, ans, pinfo) ==
    IF "column_1_duty_rate" \notin DOMAIN ans
    THEN Verdict(FALSE, None, "REQUIRES DATA: Product from ", 0)
    ELSE IF ans["column_1_duty_rate"] >= 15
    THEN Verdict(TRUE, "N/A", "EXEMPT: ", 0)
    ELSE Raise("UnboundLocalError")

apply_ieepa_reciprocal_logic(tariff, ans, pinfo, s232) ==
    LET origin == pinfo.origin_country
        total == total_232_material_pct(ans, s232)
        non_232_pct == 100 - total
        us_content == Get(ans, "us_content_percentage", 0)
    IN  IF origin \in column_2_countries
        THEN Verdict(TRUE, "9903.01.29",
                     "EXEMPT: Product from Column 2 rate country (", 0)
        ELSE IF Get(ans, "is_humanitarian_donation", FALSE)
        THEN Verdict(TRUE, "9903.01.30",
                     "EXEMPT: Humanitarian donation (food, clothing, medicine)", 0)
        ELSE IF origin \in special_calculation_countries
        THEN special_calculation(tariff, ans, pinfo)
        ELSE IF total > 100
        THEN Verdict(FALSE, None,
                     "ERROR: Total Section 232 material percentages exceed 100%. ", 0)
        ELSE IF non_232_pct <= 0
        THEN Verdict(TRUE, "9903.01.33",
                     "EXEMPT: Product is 100% Section 232 materials (exemption 9903.01.33 - metal portion exempt)", 0)
        ELSE IF us_content > 100
        THEN Verdict(FALSE, None, "ERROR: US content percentage (", 0)
        ELSE IF us_content > 20
        THEN Verdict(TRUE, "9903.01.34", "EXEMPT: Product has ", 0)
        ELSE IF Get(ans, "is_informational_materials", FALSE)
        THEN Verdict(TRUE, "9903.01.21",
                     "EXEMPT: Product is informational materials (books, films, CDs, artwork)", 0)
        ELSE Verdict(FALSE, None, "APPLIES to NON-232 portion only: ",
                     PortionAmount(pinfo.value, non_232_pct, tariff.rate))

----------------------------------------------------------------------------
(* analyze_stacking *)

\* the verdict given to a material tariff once an HTS-based tariff applies
SupersededVerdict ==
    Verdict(TRUE, "N/A",
            "NOT APPLICABLE: Product already covered under Section 232 Automotive/Buses HTS code classification. Material composition tariffs do not apply when HTS-based 232 tariff applies.",
            0)

MaterialOf ==
    [section_232_steel    |-> "steel",
     section_232_aluminum |-> "aluminum",
     section_232_copper   |-> "copper",
     section_232_lumber   |-> "lumber"]

HTS_CATEGORIES == {"section_232_automotive", "section_232_buses"}

MATERIAL_CATEGORIES == DOMAIN MaterialOf

\* the category logic the loop body dispatches to
CategoryLogic(tariff, ans, pinfo, s232) ==
    CASE tariff.category = "section_232_automotive" ->
            apply_section_232_automotive_logic(tariff, ans, pinfo)
      [] tariff.category = "section_232_buses" ->
            apply_section_232_buses_logic(tariff, ans, pinfo)
      [] tariff.category = "section_232_steel" ->
            apply_section_232_steel_logic(tariff, ans, pinfo)
      [] tariff.category = "section_232_aluminum" ->
            apply_section_232_aluminum_logic(tariff, ans, pinfo)
      [] tariff.category = "section_232_copper" ->
            apply_section_232_copper_logic(tariff, ans, pinfo)
      [] tariff.category = "section_232_lumber" ->
            apply_section_232_lumber_logic(tariff, ans, pinfo)
      [] tariff.category = "section_301" ->
            apply_section_301_logic(tariff, ans, pinfo)
      [] tariff.category = "ieepa_reciprocal" ->
            apply_ieepa_reciprocal_logic(tariff, ans, pinfo, s232)
      [] tariff.category = "ieepa_fentanyl" ->
            apply_ieepa_fentanyl_logic(tariff, ans, pinfo)
      [] OTHER ->
            Verdict(FALSE, None, "APPLIES: ", tariff.amount)

\* whether the loop body skips the category logic of this tariff
Superseded(tariff, hts) == tariff.category \in MATERIAL_CATEGORIES /\ hts

\* variant: only the automotive verdict sets the flag
HtsAfterAutomotiveOnly(tariff, analysis, hts) ==
    IF tariff.category = "section_232_automotive"
       /\ ~Get(analysis, "excluded", FALSE)
    THEN TRUE
    ELSE hts

\* hts_based_232_applies after the loop body
HtsAfter(tariff, analysis, hts) ==
    IF tariff.category \in HTS_CATEGORIES /\ ~Get(analysis, "excluded", FALSE)
    THEN TRUE
    ELSE hts

\* section_232_results after the loop body
Section232After(tariff, analysis, hts, s232) ==
    IF tariff.category \in MATERIAL_CATEGORIES /\ ~hts
    THEN Put(s232, MaterialOf[tariff.category], analysis)
    ELSE s232

\* {**tariff, **analysis}
Merge(tariff, analysis) ==
    [k \in (DOMAIN tariff) \cup (DOMAIN analysis) |->
        IF k \in DOMAIN analysis THEN analysis[k] ELSE tariff[k]]

\* one pass of the loop body over sorted_tariffs[i..]; st holds the locals
\* results, hts_based_232_applies, section_232_results, and the exception, if
\* one left the body
RECURSIVE Loop(_, _, _, _, _)
Loop(sorted_tariffs, i, ans, pinfo, st) ==
    IF i > Len(sorted_tariffs) THEN st
    ELSE LET tariff == sorted_tariffs[i]
             analysis == IF Superseded(tariff, st.hts_based_232_applies)
                         THEN SupersededVerdict
                         ELSE CategoryLogic(tariff, ans, pinfo,
                                            st.section_232_results)
         IN  IF IsRaise(analysis)
             THEN [st EXCEPT !.raised = TRUE]
             ELSE Loop(sorted_tariffs, i + 1, ans, pinfo,
                    [results |-> Append(st.results, Merge(tariff, analysis)),
                     hts_based_232_applies |->
                        HtsAfter(tariff, analysis, st.hts_based_232_applies),
                     section_232_results |->
                        Section232After(tariff, analysis,
                                        st.hts_based_232_applies,
                                        st.section_232_results),
                     raised |-> FALSE])

\* variant: locals kept at module level, never reset
CallLocalsKept(old_hts, old_s232) ==
    [results |-> <<>>, hts_based_232_applies |-> old_hts,
     section_232_results |-> old_s232, raised |-> FALSE]

\* the locals a call starts with, whatever an earlier call left behind
CallLocals(old_hts, old_s232) ==
    [results |-> <<>>, hts_based_232_applies |-> FALSE,
     section_232_results |-> EmptyDict, raised |-> FALSE]

analyze_stacking(ts, ans, pinfo, old_hts, old_s232) ==
    Loop(SortedTariffs(ts), 1, ans, pinfo, CallLocals(old_hts, old_s232))

----------------------------------------------------------------------------
(* get_required_questions *)

\* the locals questions and question_index before the first append
NoQuestions == [questions |-> <<>>, question_index |-> 0]

\* questions.append({'id': ..., 'index': question_index, ...});
\* question_index += 1
Ask(st, id, type) ==
    [questions |-> Append(st.questions, Question(id, st.question_index, type)),
     question_index |-> st.question_index + 1]

\* the same for a question with a 'conditional' entry
AskConditional(st, id, type, depends_on) ==
    [questions |-> Append(st.questions,
                          ConditionalQuestion(id, st.question_index, type,
                                              Conditional("US", depends_on))),
     question_index |-> st.question_index + 1]

\* [q['id'] for q in questions]
AskedIds(st) == {st.questions[i].id : i \in DOMAIN st.questions}

steel_questions(st, origin_country) ==
    IF origin_country \in {"CA", "MX"}
    THEN Ask(st, "usmca_qualified", "boolean")
    ELSE AskConditional(
            Ask(Ask(st, "steel_percentage", "slider"),
                "steel_origin_country", "country_select"),
            "steel_melted_poured_us", "boolean", "steel_origin_country")

\* variant: the USMCA question appended without looking at the list
aluminum_questions_unchecked(st, origin_country) ==
    IF origin_country \in {"CA", "MX"}
    THEN Ask(st, "usmca_qualified", "boolean")
    ELSE AskConditional(
            Ask(Ask(st, "aluminum_percentage", "slider"),
                "aluminum_origin_country", "country_select"),
            "aluminum_smelted_cast_us", "boolean", "aluminum_origin_country")

aluminum_questions(st, origin_country) ==
    IF origin_country \in {"CA", "MX"}
    THEN IF "usmca_qualified" \notin AskedIds(st)
         THEN Ask(st, "usmca_qualified", "boolean")
         ELSE st
    ELSE AskConditional(
            Ask(Ask(st, "aluminum_percentage", "slider"),
                "aluminum_origin_country", "country_select"),
            "aluminum_smelted_cast_us", "boolean", "aluminum_origin_country")

section_301_questions(st, origin_country) ==
    Ask(Ask(st, "ustr_product_exclusion", "boolean"),
        "ustr_manufacturing_equipment", "boolean")

\* the three questions every reciprocal tariff outside Column 2 gets
common_reciprocal_questions(st) ==
    Ask(Ask(Ask(st, "is_humanitarian_donation", "boolean"),
            "us_content_percentage", "slider"),
        "is_informational_materials", "boolean")

\* variant: the Column-1 question asked for every origin outside Column 2
reciprocal_questions_always_column_1(st, origin_country) ==
    IF origin_country \in column_2_countries THEN st
    ELSE common_reciprocal_questions(Ask(st, "column_1_duty_rate", "slider"))

reciprocal_questions(st, origin_country) ==
    IF origin_country \in column_2_countries THEN st
    ELSE IF origin_country \in special_calculation_countries
    THEN common_reciprocal_questions(Ask(st, "column_1_duty_rate", "slider"))
    ELSE common_reciprocal_questions(st)

\* variant: the blocks taken in the order of the priority table
questions_in_table_order(detected_tariffs, origin_country) ==
    LET categories ==
            {detected_tariffs[i].category : i \in DOMAIN detected_tariffs}
        s1 == IF "section_301" \in categories /\ origin_country \in CHINA_COUNTRIES
              THEN section_301_questions(NoQuestions, origin_country)
              ELSE NoQuestions
        s2 == IF "section_232_steel" \in categories
              THEN steel_questions(s1, origin_country) ELSE s1
        s3 == IF "section_232_aluminum" \in categories
              THEN aluminum_questions(s2, origin_country) ELSE s2
        s4 == IF "ieepa_reciprocal" \in categories
              THEN reciprocal_questions(s3, origin_country) ELSE s3
    IN  s4.questions

get_required_questions(detected_tariffs, origin_country) ==
    LET categories ==
            {detected_tariffs[i].category : i \in DOMAIN detected_tariffs}
        s1 == IF "section_232_steel" \in categories
              THEN steel_questions(NoQuestions, origin_country)
              ELSE NoQuestions
        s2 == IF "section_232_aluminum" \in categories
              THEN aluminum_questions(s1, origin_country) ELSE s1
        s3 == IF "section_301" \in categories /\ origin_country \in CHINA_COUNTRIES
              THEN section_301_questions(s2, origin_country) ELSE s2
        s4 == IF "ieepa_reciprocal" \in categories
              THEN reciprocal_questions(s3, origin_country) ELSE s3
    IN  s4.questions

----------------------------------------------------------------------------
(* Text: a Python str is the sequence of its characters *)

Uppers ==
    << "A", "B", "C", "D", "E", "F", "G", "H", "I", "J", "K", "L", "M",
       "N", "O", "P", "Q", "R", "S", "T", "U", "V", "W", "X", "Y", "Z" >>

Lowers ==
    << "a", "b", "c", "d", "e", "f", "g", "h", "i", "j", "k", "l", "m",
       "n", "o", "p", "q", "r", "s", "t", "u", "v", "w", "x", "y", "z" >>

Digits == << "0", "1", "2", "3", "4", "5", "6", "7", "8", "9" >>

Whitespace == {" ", "\t", "\n"}

\* position of a character in a list of characters, 0 when it is not there
IndexIn(chars, c) ==
    IF \E i \in DOMAIN chars : chars[i] = c
    THEN CHOOSE i \in DOMAIN chars : chars[i] = c
    ELSE 0

\* str.lower() and str.upper()
Lower(s) ==
    [i \in DOMAIN s |->
        IF IndexIn(Uppers, s[i]) > 0 THEN Lowers[IndexIn(Uppers, s[i])] ELSE s[i]]

Upper(s) ==
    [i \in DOMAIN s |->
        IF IndexIn(Lowers, s[i]) > 0 THEN Uppers[IndexIn(Lowers, s[i])] ELSE s[i]]

\* str.strip()
RECURSIVE LStrip(_)
LStrip(s) ==
    IF s # <<>> /\ Head(s) \in Whitespace THEN LStrip(Tail(s)) ELSE s

RECURSIVE RStrip(_)
RStrip(s) ==
    IF s # <<>> /\ s[Len(s)] \in Whitespace
    THEN RStrip(SubSeq(s, 1, Len(s) - 1))
    ELSE s

Strip(s) == RStrip(LStrip(s))

\* str.replace(c, '')
Without(s, c) == SelectSeq(s, LAMBDA x : x # c)

\* needle in s
Contains(s, needle) ==
    \E i \in 1..(Len(s) - Len(needle) + 1) :
        SubSeq(s, i, i + Len(needle) - 1) = needle

\* the decimal digits of a natural number
RECURSIVE DecimalText(_)
DecimalText(n) ==
    IF n < 10 THEN <<Digits[n + 1]>>
    ELSE Append(DecimalText(n \div 10), Digits[(n % 10) + 1])

\* the natural number a text of digits denotes
RECURSIVE NatOf(_)
NatOf(ds) ==
    IF ds = <<>> THEN 0
    ELSE 10 * NatOf(SubSeq(ds, 1, Len(ds) - 1)) + (IndexIn(Digits, ds[Len(ds)]) - 1)

IsDigits(s) == s # <<>> /\ \A i \in DOMAIN s : IndexIn(Digits, s[i]) > 0

\* a float: mantissa and power of ten, the mantissa not a multiple of ten
\* (0.0 is mantissa 0, power 0)
RECURSIVE FloatOf(_, _)
FloatOf(mantissa, power) ==
    IF mantissa = 0 THEN <<"float", 0, 0>>
    ELSE IF mantissa % 10 = 0 THEN FloatOf(mantissa \div 10, power + 1)
    ELSE <<"float", mantissa, power>>

Signed(s) == s # <<>> /\ s[1] \in {"+", "-"}

Unsigned(s) == IF Signed(s) THEN Tail(s) ELSE s

Sign(s) == IF Signed(s) /\ s[1] = "-" THEN -1 ELSE 1

\* float(s) for a text of digits, signs, a point, an exponent mark, blanks
\* and other characters that no float literal holds: the float, or the
\* ValueError
float(s) ==
    LET body == Unsigned(Strip(s))
        marks == {i \in DOMAIN body : body[i] \in {"e", "E"}}
        mark == IF marks = {} THEN Len(body) + 1 ELSE CHOOSE i \in marks : TRUE
        number == SubSeq(body, 1, mark - 1)
        exponent == SubSeq(body, mark + 1, Len(body))
        points == {i \in DOMAIN number : number[i] = "."}
        point == IF points = {} THEN Len(number) + 1 ELSE CHOOSE i \in points : TRUE
        digits == Without(number, ".")
        well_formed ==
            /\ Cardinality(marks) <= 1
            /\ Cardinality(points) <= 1
            /\ IsDigits(digits)
            /\ marks # {} => IsDigits(Unsigned(exponent))
        decimals == IF points = {} THEN 0 ELSE Len(number) - point
        power == (IF marks = {} THEN 0
                  ELSE Sign(exponent) * NatOf(Unsigned(exponent)))
                 - decimals
    IN  IF well_formed
        THEN FloatOf(Sign(Strip(s)) * NatOf(digits), power)
        ELSE <<"ValueError">>

----------------------------------------------------------------------------
(* Answer normalization *)

\* a raw answer is a JSON value: <<"str", text>>, <<"int", n>>,
\* <<"bool", b>> or <<"NoneType">>; a normalized answer is <<"bool", b>>,
\* <<"float", mantissa, power>> or <<"str", text>>

\* str(answer)
Str(answer) ==
    CASE answer[1] = "str" -> answer[2]
      [] answer[1] = "int" -> DecimalText(answer[2])
      [] answer[1] = "bool" -> IF answer[2] THEN <<"T", "r", "u", "e">>
                                ELSE <<"F", "a", "l", "s", "e">>
      [] OTHER -> <<"N", "o", "n", "e">>

\* ['yes', 'true', '1']
TrueTexts == { <<"y", "e", "s">>, <<"t", "r", "u", "e">>, <<"1">> }

\* try: float(answer_str) except: 0.0
float_or_zero(answer_str) ==
    IF float(answer_str)[1] = "float" THEN float(answer_str)
    ELSE <<"float", 0, 0>>

\* variant: the words compared without lower-casing
parse_answer_as_typed(answer, question_type) ==
    CASE question_type = "boolean" ->
            <<"bool", Strip(Str(answer)) \in TrueTexts>>
      [] question_type = "slider" ->
            float_or_zero(Strip(Without(Str(answer), "%")))
      [] question_type = "country_select" ->
            <<"str", Upper(Strip(Str(answer)))>>
      [] OTHER -> answer

parse_answer(answer, question_type) ==
    CASE question_type = "boolean" ->
            <<"bool", Strip(Lower(Str(answer))) \in TrueTexts>>
      [] question_type = "slider" ->
            float_or_zero(Strip(Without(Str(answer), "%")))
      [] question_type = "country_select" ->
            <<"str", Upper(Strip(Str(answer)))>>
      [] OTHER -> answer

\* the type the question endpoint gives a question in its response
FrontendType(type) ==
    CASE type = "slider" -> "number"
      [] type = "country_select" -> "text"
      [] OTHER -> type

FormatQuestion(q) == FormattedQuestion(FrontendType(q.type), q.id, q.index)

\* the inline parsing of the evaluation endpoint for one answer_raw
parse_inline(answer_raw, question_type) ==
    CASE question_type = "number" ->
            float_or_zero(Strip(Without(Str(answer_raw), "%")))
      [] question_type = "boolean" ->
            <<"bool", Strip(Lower(Str(answer_raw))) \in TrueTexts>>
      [] question_type = "text" ->
            <<"str", Upper(Strip(Str(answer_raw)))>>
      [] OTHER -> answer_raw

\* the loop of the evaluation endpoint over the questions of the request:
\* raw holds the answers under the question indexes (the keys of the JSON
\* object are the indexes as decimal strings); an index without an answer,
\* or with null, leaves parsed_answers as it is
RECURSIVE parsed_answers_after(_, _, _)
parsed_answers_after(formatted, raw, parsed_answers) ==
    IF formatted = <<>> THEN parsed_answers
    ELSE LET q == Head(formatted)
             answer_raw == Get(raw, q.questionIndex, <<"NoneType">>)
         IN  parsed_answers_after(Tail(formatted), raw,
                IF answer_raw[1] # "NoneType"
                THEN Put(parsed_answers, q.questionId,
                         parse_inline(answer_raw, q.type))
                ELSE parsed_answers)

----------------------------------------------------------------------------
(* The totals of the evaluation endpoint *)

\* sum(...) over a list of numbers
RECURSIVE Sum(_)
Sum(seq) == IF seq = <<>> THEN 0 ELSE Head(seq) + Sum(Tail(seq))

\* no totals: the endpoint has not answered, or answered with an error
NoTotals == EmptyDict

\* total_before, total_after and savings as the endpoint computes them
EndpointTotals(found_tariffs, analyzed_tariffs) ==
    LET total_before == Sum([i \in DOMAIN found_tariffs |-> found_tariffs[i].amount])
        total_after ==
            Sum([i \in DOMAIN analyzed_tariffs |-> analyzed_tariffs[i].final_amount])
    IN  Totals(total_before, total_after, total_before - total_after)

----------------------------------------------------------------------------
(* Inputs of the calls the model makes *)

\* longest tariff list of a call
MaxTariffs == 3

\* longest tariff list of a call in the behaviours that compare two calls
MaxPairTariffs == 2

\* shipment values
Values == {0, 4}

\* origins: USMCA, China, an EU member state, South Korea, a Column 2
\* country, and a country under none of the special rules
Origins == {"CA", "MX", "CN", "DE", "KR", "RU", "BR"}

\* one detected tariff per category, listed against the priority table, and
\* two categories the table does not know
KindList ==
    << Kind("unknown", "9903.99.01", "Other duty", 5),
       Kind("section_201", "9903.45.01", "Section 201 Safeguard", 30),
       Kind("ieepa_reciprocal", "9903.01.25", "IEEPA Reciprocal", 10),
       Kind("section_232_lumber", "9903.76.01", "Section 232 Lumber", 10),
       Kind("section_232_copper", "9903.78.01", "Section 232 Copper", 50),
       Kind("section_232_aluminum", "9903.85.02", "Section 232 Aluminum", 25),
       Kind("section_232_steel", "9903.81.87", "Section 232 Steel", 25),
       Kind("section_232_buses", "9903.94.07", "Section 232 Buses", 10),
       Kind("section_232_automotive", "9903.94.01", "Section 232 Automotive", 25),
       Kind("ieepa_fentanyl", "9903.01.24", "IEEPA Fentanyl", 20),
       Kind("section_301", "9903.88.03", "Section 301", 25) >>

\* a second detected tariff of a category already in KindList
SecondSteel == Kind("section_232_steel", "9903.81.90", "Section 232 Steel Derivative", 50)

\* every detected tariff of the model, and the tariffs at a list of positions
AllKinds == Append(KindList, SecondSteel)

KindsAt(ix) == [i \in DOMAIN ix |-> AllKinds[ix[i]]]

\* the DetectedTariff built upstream: amount = value * rate
Detected(kind, value) ==
    DetectedTariff(kind.category, kind.code, kind.name, kind.rate,
                   FullAmount(value, kind.rate))

DetectedList(kinds, value) == [i \in 1..Len(kinds) |-> Detected(kinds[i], value)]

CategoriesOf(kinds) == {kinds[i].category : i \in 1..Len(kinds)}

\* sequences of 1..n elements of S
SeqsUpTo(S, n) == UNION {[1..m -> S] : m \in 1..n}

Restrict(d, K) == [k \in (DOMAIN d) \cap K |-> d[k]]

MaterialKey ==
    [section_232_steel    |-> "steel_percentage",
     section_232_aluminum |-> "aluminum_percentage",
     section_232_copper   |-> "copper_percentage",
     section_232_lumber   |-> "lumber_percentage"]

\* declared compositions: none, 60 each, 0 each, and 50/30/20/10
MaterialProfiles ==
    { EmptyDict,
      [steel_percentage |-> 60, aluminum_percentage |-> 60,
       copper_percentage |-> 60, lumber_percentage |-> 60],
      [steel_percentage |-> 0, aluminum_percentage |-> 0,
       copper_percentage |-> 0, lumber_percentage |-> 0],
      [steel_percentage |-> 50, aluminum_percentage |-> 30,
       copper_percentage |-> 20, lumber_percentage |-> 10] }

UsmcaProfiles ==
    { EmptyDict, [usmca_qualified |-> TRUE], [usmca_qualified |-> FALSE] }

MaterialOriginProfiles ==
    { EmptyDict,
      [steel_origin_country |-> "US", steel_melted_poured_us |-> TRUE,
       aluminum_origin_country |-> "US", aluminum_smelted_cast_us |-> TRUE],
      [steel_origin_country |-> "US", steel_melted_poured_us |-> FALSE,
       aluminum_origin_country |-> "US"],
      [steel_origin_country |-> "CN", steel_melted_poured_us |-> TRUE,
       aluminum_origin_country |-> "CN", aluminum_smelted_cast_us |-> TRUE] }

Section301Profiles ==
    { EmptyDict,
      [ustr_product_exclusion |-> TRUE],
      [ustr_manufacturing_equipment |-> TRUE],
      [ustr_product_exclusion |-> TRUE, ustr_manufacturing_equipment |-> TRUE],
      [ustr_product_exclusion |-> FALSE, ustr_manufacturing_equipment |-> FALSE] }

ReciprocalProfiles ==
    { EmptyDict,
      [is_humanitarian_donation |-> TRUE],
      [is_humanitarian_donation |-> FALSE, column_1_duty_rate |-> 10],
      [column_1_duty_rate |-> 0],
      [column_1_duty_rate |-> 15],
      [column_1_duty_rate |-> 20, us_content_percentage |-> 150],
      [us_content_percentage |-> 150],
      [us_content_percentage |-> 21],
      [us_content_percentage |-> 20, is_informational_materials |-> TRUE],
      [us_content_percentage |-> 20, is_informational_materials |-> FALSE],
      [is_informational_materials |-> TRUE] }

\* the answer dicts tried for a set of categories and an origin: every
\* combination of the profiles above, cut down to the ids that the logic of
\* some category in cats reads for this origin
AnswersFor(cats, origin) ==
    LET materialKeys == {MaterialKey[c] : c \in cats \cap MATERIAL_CATEGORIES}
        metalKeys ==
            (IF "section_232_steel" \in cats
             THEN {"steel_origin_country", "steel_melted_poured_us"} ELSE {})
            \cup
            (IF "section_232_aluminum" \in cats
             THEN {"aluminum_origin_country", "aluminum_smelted_cast_us"} ELSE {})
        usmcaRead == origin \in USMCA_COUNTRIES
                     /\ cats \cap {"section_232_steel", "section_232_aluminum",
                                   "section_232_copper", "section_232_automotive"} # {}
        mat == {Restrict(m, materialKeys) : m \in MaterialProfiles}
        usm == IF usmcaRead THEN UsmcaProfiles ELSE {EmptyDict}
        org == IF origin \in USMCA_COUNTRIES THEN {EmptyDict}
               ELSE {Restrict(m, metalKeys) : m \in MaterialOriginProfiles}
        s301 == IF "section_301" \in cats /\ origin \in CHINA_COUNTRIES
                THEN Section301Profiles ELSE {EmptyDict}
        rec == IF "ieepa_reciprocal" \in cats /\ origin \notin column_2_countries
               THEN ReciprocalProfiles ELSE {EmptyDict}
    IN  {m @@ u @@ o @@ x @@ r :
            m \in mat, u \in usm, o \in org, x \in s301, r \in rec}

CallInput(kinds, ans, origin, value) ==
    [tariffs |-> DetectedList(kinds, value), answers |-> ans,
     product_info |-> ProductInfo(origin, value)]

\* the sets of 1..MaxTariffs categories
CategorySets ==
    {c \in SUBSET CategoriesOf(KindList) : Cardinality(c) \in 1..MaxTariffs}

\* the detected tariffs of a set of categories, listed against the priority
\* table
AgainstTable(cats) == SelectSeq(KindList, LAMBDA k : k.category \in cats)

\* answers of the ordering inputs: none, and a declared composition with
\* USMCA qualification
OrderAnswers ==
    { EmptyDict,
      [steel_percentage |-> 60, aluminum_percentage |-> 30,
       usmca_qualified |-> TRUE] }

\* the lists of 1..MaxTariffs detected tariffs (as positions in AllKinds), in
\* every order and with repetitions, two of the tariffs being of the same
\* category
OrderedLists == SeqsUpTo(DOMAIN AllKinds, MaxTariffs)

OrderOrigins == {"CA", "CN"}

----------------------------------------------------------------------------
(* The state machine *)

\* no call remembered
Nothing ==
    [tariffs |-> <<>>, answers |-> EmptyDict,
     product_info |-> ProductInfo("", 0),
     outcome |-> "idle", results |-> <<>>, since |-> 0]

Init ==
    /\ tariffs = <<>>
    /\ answers = EmptyDict
    /\ product_info = ProductInfo("", 0)
    /\ outcome = "idle"
    /\ results = <<>>
    /\ hts_based_232_applies = FALSE
    /\ section_232_results = EmptyDict
    /\ earlier = Nothing
    /\ response = NoTotals
    /\ questions = <<>>
    /\ raw_answers = EmptyDict
    /\ catalog = NoTotals
    /\ parsed = EmptyDict

\* one call of analyze_stacking, and the totals the evaluation endpoint forms
\* from its result; an exception leaves the endpoint without totals
Evaluate(inp) ==
    LET st == analyze_stacking(inp.tariffs, inp.answers, inp.product_info,
                               hts_based_232_applies, section_232_results)
    IN  /\ tariffs' = inp.tariffs
        /\ answers' = inp.answers
        /\ product_info' = inp.product_info
        /\ outcome' = IF st.raised THEN "raised" ELSE "returned"
        /\ results' = IF st.raised THEN <<>> ELSE st.results
        /\ hts_based_232_applies' = st.hts_based_232_applies
        /\ section_232_results' = st.section_232_results
        /\ earlier' = IF earlier.outcome = "idle" THEN earlier
                      ELSE [earlier EXCEPT !.since = IF @ < 2 THEN @ + 1 ELSE @]
        /\ response' = IF st.raised THEN NoTotals
                       ELSE EndpointTotals(inp.tariffs, st.results)

Call(inp) == Evaluate(inp) /\ UNCHANGED <<questions, raw_answers, catalog, parsed>>

\* the first call of a process: a set of categories listed against the
\* priority table, with every answer dict of AnswersFor
AnalyzeComposition ==
    /\ outcome = "idle"
    /\ \E cats \in CategorySets, o \in Origins, v \in Values :
          \E a \in AnswersFor(cats, o) :
             Call(CallInput(AgainstTable(cats), a, o, v))

\* the first call of a process: any list of detected tariffs
AnalyzeOrdered ==
    /\ outcome = "idle"
    /\ \E ix \in OrderedLists, a \in OrderAnswers, o \in OrderOrigins :
          Call(CallInput(KindsAt(ix), a, o, 4))

Next == AnalyzeComposition \/ AnalyzeOrdered

Spec == Init /\ [][Next]_vars

----------------------------------------------------------------------------
(* Sequences of calls *)

\* the detected tariffs of the repeated calls (as positions in AllKinds): an
\* HTS-based and a material tariff, a second tariff of the same category, two
\* unlisted categories
PairKinds ==
    { i \in DOMAIN AllKinds :
        AllKinds[i].category \in {"section_232_buses", "section_232_steel",
                                  "unknown", "section_201"} }

\* lists of 1..MaxPairTariffs different tariffs of PairKinds, in every order
PairLists ==
    { ix \in SeqsUpTo(PairKinds, MaxPairTariffs) :
        \A i, j \in DOMAIN ix : i # j => ix[i] # ix[j] }

PairAnswers == [steel_percentage |-> 60]

\* any call of a process, after any other
AnalyzeAgain ==
    \E ix \in PairLists : Call(CallInput(KindsAt(ix), PairAnswers, "BR", 4))

\* history: remember the call just made, to compare later calls with it
Remember ==
    /\ outcome # "idle"
    /\ earlier' = [tariffs |-> tariffs, answers |-> answers,
                   product_info |-> product_info, outcome |-> outcome,
                   results |-> results, since |-> 0]
    /\ UNCHANGED <<tariffs, answers, product_info, outcome, results,
                   hts_based_232_applies, section_232_results,
                   response, questions, raw_answers, catalog, parsed>>

NextCalls == AnalyzeAgain \/ Remember

SpecCalls == Init /\ [][NextCalls]_vars

----------------------------------------------------------------------------
(* The exemption catalog *)

SECTION_232_STEEL_EXEMPTIONS ==
    << ExemptionRule("9903.01.26", "USMCA Exemption: Canada Origin", "EXEMPT",
            [origin_countries |-> {"CA"}, requires_usmca |-> TRUE]),
       ExemptionRule("9903.01.27", "USMCA Exemption: Mexico Origin", "EXEMPT",
            [origin_countries |-> {"MX"}, requires_usmca |-> TRUE]),
       ExemptionRule("9903.81.92", "U.S.-Origin Steel Exemption", "EXEMPT",
            [us_origin |-> TRUE, melted_and_poured_in_us |-> TRUE]),
       ExemptionRule("PRODUCT_EXCLUSION_STEEL",
            "Commerce Product-Specific Exclusion", "EXEMPT",
            [requires_exclusion_approval |-> TRUE, requires_ior_match |-> TRUE,
             quantity_limited |-> TRUE]) >>

SECTION_232_ALUMINUM_EXEMPTIONS ==
    << ExemptionRule("9903.01.26", "USMCA Exemption: Canada Origin", "EXEMPT",
            [origin_countries |-> {"CA"}, requires_usmca |-> TRUE]),
       ExemptionRule("9903.01.27", "USMCA Exemption: Mexico Origin", "EXEMPT",
            [origin_countries |-> {"MX"}, requires_usmca |-> TRUE]),
       ExemptionRule("US_ORIGIN_ALUMINUM", "U.S.-Origin Aluminum Exemption",
            "EXEMPT",
            [us_origin |-> TRUE, smelted_and_cast_in_us |-> TRUE]),
       ExemptionRule("PRODUCT_EXCLUSION_AL",
            "Commerce Product-Specific Exclusion", "EXEMPT",
            [requires_exclusion_approval |-> TRUE, requires_ior_match |-> TRUE,
             quantity_limited |-> TRUE]) >>

SECTION_301_EXEMPTIONS ==
    << ExemptionRule("9903.88.69",
            "USTR Product-Specific Exclusion (164 products)", "EXEMPT",
            [origin_countries |-> {"CN", "HK", "MO"},
             requires_product_match |-> TRUE,
             must_match_detailed_description |-> TRUE]),
       ExemptionRule("9903.88.70",
            "USTR Manufacturing Equipment Exclusion (14 products)", "EXEMPT",
            [origin_countries |-> {"CN", "HK", "MO"},
             requires_product_match |-> TRUE,
             must_match_detailed_description |-> TRUE,
             manufacturing_equipment |-> TRUE]),
       ExemptionRule("SECTION_321_ELIMINATED",
            "De Minimis Exemption (Section 321) - ELIMINATED for CN/HK/MO",
            "NO_EXEMPTION",
            [eliminated_for_china_hk_macau |-> TRUE,
             effective_date |-> "2024-09-01"]) >>

IEEPA_EXEMPTIONS ==
    << ExemptionRule("9903.01.34", "U.S. Content Exemption (>20%)", "EXEMPT",
            [us_content_percentage |-> <<">", "2", "0">>,
             origin_countries |-> {"CN", "HK", "MO"}]),
       ExemptionRule("9903.01.21", "Informational Materials Exemption",
            "EXEMPT",
            [origin_countries |-> {"CN", "HK", "MO"},
             informational_materials |-> TRUE]),
       ExemptionRule("9903.01.33", "Section 232 Exempts IEEPA Reciprocal",
            "EXEMPT",
            [section_232_applies |-> TRUE]) >>

\* CBP_STACKING_RULES['order']
CBP_ORDER ==
    << "section_232_steel", "section_232_aluminum", "section_232_automotive",
       "section_301", "ieepa_reciprocal", "ieepa_fentanyl" >>

\* the characters of the category names
Spelling ==
    [ section_301 |->
        <<"s", "e", "c", "t", "i", "o", "n", "_", "3", "0", "1">>,
      ieepa_fentanyl |->
        <<"i", "e", "e", "p", "a", "_", "f", "e", "n", "t", "a", "n", "y", "l">>,
      section_232_automotive |->
        <<"s", "e", "c", "t", "i", "o", "n", "_", "2", "3", "2", "_", "a", "u", "t", "o", "m", "o", "t", "i", "v", "e">>,
      section_232_buses |->
        <<"s", "e", "c", "t", "i", "o", "n", "_", "2", "3", "2", "_", "b", "u", "s", "e", "s">>,
      section_232_steel |->
        <<"s", "e", "c", "t", "i", "o", "n", "_", "2", "3", "2", "_", "s", "t", "e", "e", "l">>,
      section_232_aluminum |->
        <<"s", "e", "c", "t", "i", "o", "n", "_", "2", "3", "2", "_", "a", "l", "u", "m", "i", "n", "u", "m">>,
      section_232_copper |->
        <<"s", "e", "c", "t", "i", "o", "n", "_", "2", "3", "2", "_", "c", "o", "p", "p", "e", "r">>,
      section_232_lumber |->
        <<"s", "e", "c", "t", "i", "o", "n", "_", "2", "3", "2", "_", "l", "u", "m", "b", "e", "r">>,
      ieepa_reciprocal |->
        <<"i", "e", "e", "p", "a", "_", "r", "e", "c", "i", "p", "r", "o", "c", "a", "l">>,
      section_201 |->
        <<"s", "e", "c", "t", "i", "o", "n", "_", "2", "0", "1">>,
      unknown |->
        <<"u", "n", "k", "n", "o", "w", "n">> ]

\* needle in category.lower()
CategoryContains(category, needle) ==
    Contains(Lower(Spelling[category]), needle)

get_exemptions_for_category(category) ==
    IF CategoryContains(category, <<"s", "e", "c", "t", "i", "o", "n", "_", "2", "3", "2", "_", "s", "t", "e", "e", "l">>)
       \/ CategoryContains(category, <<"s", "t", "e", "e", "l">>)
    THEN SECTION_232_STEEL_EXEMPTIONS
    ELSE IF CategoryContains(category, <<"s", "e", "c", "t", "i", "o", "n", "_", "2", "3", "2", "_", "a", "l", "u", "m", "i", "n", "u", "m">>)
            \/ CategoryContains(category, <<"a", "l", "u", "m", "i", "n", "u", "m">>)
    THEN SECTION_232_ALUMINUM_EXEMPTIONS
    ELSE IF CategoryContains(category, <<"s", "e", "c", "t", "i", "o", "n", "_", "3", "0", "1">>)
    THEN SECTION_301_EXEMPTIONS
    ELSE IF CategoryContains(category, <<"i", "e", "e", "p", "a">>)
    THEN IEEPA_EXEMPTIONS
    ELSE <<>>

\* 10 to the power n
RECURSIVE Pow10(_)
Pow10(n) == IF n = 0 THEN 1 ELSE 10 * Pow10(n - 1)

\* a > b on floats
GreaterThan(a, b) ==
    LET power == IF a[3] < b[3] THEN a[3] ELSE b[3]
    IN  a[2] * Pow10(a[3] - power) > b[2] * Pow10(b[3] - power)

\* isinstance(answer, (int, float)); a bool is an int
IsNumber(answer) == answer[1] \in {"int", "bool"}

NumberOf(answer) ==
    IF answer[1] = "bool" THEN <<"float", IF answer[2] THEN 1 ELSE 0, 0>>
    ELSE FloatOf(answer[2], 0)

\* answers.values()
ValuesOf(d) == {d[k] : k \in DOMAIN d}

\* the test of the USMCA condition on one answer
SignalsUsmca(answer) ==
    /\ Contains(Lower(Str(answer)), <<"u", "s", "m", "c", "a">>)
    /\ Contains(Lower(Str(answer)), <<"y", "e", "s">>)

\* the test of the melted-and-poured condition on one answer
SignalsUsMelted(answer) ==
    /\ \/ Contains(Lower(Str(answer)), <<"m", "e", "l", "t", "e", "d">>)
       \/ Contains(Lower(Str(answer)), <<"p", "o", "u", "r", "e", "d">>)
       \/ Contains(Lower(Str(answer)), <<"o", "r", "i", "g", "i", "n">>)
    /\ \/ Contains(Lower(Str(answer)), <<"u", "s">>)
       \/ Contains(Lower(Str(answer)), <<"u", "n", "i", "t", "e", "d", " ", "s", "t", "a", "t", "e", "s">>)

\* the test of the percentage condition on one answer
ExceedsPercent(answer, required_percent) ==
    IF IsNumber(answer)
    THEN GreaterThan(NumberOf(answer), required_percent)
    ELSE /\ Contains(Str(answer), <<"%">>)
         /\ \E percent \in {float(Strip(Without(Str(answer), "%")))} :
                /\ percent[1] = "float"
                /\ GreaterThan(percent, required_percent)

\* check_exemption_applies, with product_info.get('origin', '') for origin
\* and the raw answers, keyed by question index, for answers
check_exemption_applies(exemption, origin, raw) ==
    LET conditions == exemption.conditions
    IN  IF "origin_countries" \in DOMAIN conditions
           /\ origin \notin conditions.origin_countries
        THEN FALSE
        ELSE IF Get(conditions, "requires_usmca", FALSE)
                /\ ~\E answer \in ValuesOf(raw) : SignalsUsmca(answer)
        THEN FALSE
        ELSE IF Get(conditions, "melted_and_poured_in_us", FALSE)
                /\ ~\E answer \in ValuesOf(raw) : SignalsUsMelted(answer)
        THEN FALSE
        ELSE IF "us_content_percentage" \in DOMAIN conditions
        THEN \E required_percent \in
                    {float(Without(Without(conditions.us_content_percentage,
                                           ">"), "<"))} :
                \E answer \in ValuesOf(raw) :
                    ExceedsPercent(answer, required_percent)
        ELSE TRUE

\* the sort of the catalog path: by position in CBP_ORDER, 999 for a
\* category that is not in it; stable
CatalogKey(t) ==
    IF IndexIn(CBP_ORDER, t.category) > 0
    THEN IndexIn(CBP_ORDER, t.category) - 1
    ELSE 999

RECURSIVE InsertByCatalogKey(_, _)
InsertByCatalogKey(t, s) ==
    IF s = <<>> THEN <<t>>
    ELSE IF CatalogKey(Head(s)) <= CatalogKey(t)
         THEN <<Head(s)>> \o InsertByCatalogKey(t, Tail(s))
         ELSE <<t>> \o s

RECURSIVE SortedByCatalogKey(_)
SortedByCatalogKey(ts) ==
    IF ts = <<>> THEN <<>>
    ELSE InsertByCatalogKey(ts[Len(ts)],
                            SortedByCatalogKey(SubSeq(ts, 1, Len(ts) - 1)))

\* the entry the loop of the catalog path appends for a tariff; the
\* reasoning of an entry exempted by a rule is held as the name of the rule
stacking_entry(tariff, origin, raw, section_232_applies) ==
    LET exemptions == get_exemptions_for_category(tariff.category)
        applying == {i \in DOMAIN exemptions :
                        check_exemption_applies(exemptions[i], origin, raw)}
        first == CHOOSE i \in applying : \A j \in applying : i <= j
    IN  IF CategoryContains(tariff.category, <<"i", "e", "e", "p", "a", "_", "r", "e", "c", "i", "p", "r", "o", "c", "a", "l">>)
           /\ section_232_applies
        THEN CatalogEntry(tariff.category, tariff.code, tariff.name,
                          tariff.rate, tariff.amount, TRUE, "9903.01.33",
                          "EXEMPT: Section 232 tariffs apply, which automatically exempts IEEPA Reciprocal (9903.01.33)")
        ELSE IF applying # {}
        THEN CatalogEntry(tariff.category, tariff.code, tariff.name,
                          tariff.rate, tariff.amount, TRUE,
                          exemptions[first].code, exemptions[first].name)
        ELSE CatalogEntry(tariff.category, tariff.code, tariff.name,
                          tariff.rate, tariff.amount, FALSE, None, "Applies: ")

analyze_stacking_with_exemptions(origin, found_tariffs, raw) ==
    LET section_232_applies ==
            \E i \in DOMAIN found_tariffs :
                CategoryContains(found_tariffs[i].category, <<"s", "e", "c", "t", "i", "o", "n", "_", "2", "3", "2">>)
        sorted == SortedByCatalogKey(found_tariffs)
        stacking_order ==
            [i \in DOMAIN sorted |->
                stacking_entry(sorted[i], origin, raw, section_232_applies)]
        total_before ==
            Sum([i \in DOMAIN found_tariffs |-> found_tariffs[i].amount])
        total_after ==
            Sum([i \in DOMAIN stacking_order |->
                    IF stacking_order[i].excluded THEN 0
                    ELSE stacking_order[i].amount])
    IN  CatalogResult(stacking_order, total_before, total_after,
                      total_before - total_after)

----------------------------------------------------------------------------
(* One submission evaluated by both paths *)

\* most tariffs of a submission
MaxPathTariffs == 2

\* the categories that have rules in the catalog and a tree in the evaluator
PathCategorySets ==
    {c \in SUBSET {"section_232_steel", "section_232_aluminum",
                   "section_301", "ieepa_reciprocal"} :
        Cardinality(c) \in 1..MaxPathTariffs}

PathOrigins == {"CA", "MX", "CN"}

\* what a client may answer to a question of each kind
RawOptions(type) ==
    CASE type = "boolean" -> { <<"str", <<"Y", "e", "s">>>>,
                               <<"str", <<"N", "o">>>> }
      [] type = "slider" -> { <<"str", <<"6", "0", "%">>>>, <<"int", 0>> }
      [] OTHER -> { <<"str", <<"U", "S">>>>, <<"str", <<"c", "n">>>> }

\* free-text remarks a client may add under an index of its own
Remarks ==
    { <<"str", <<"U", "S", "M", "C", "A", ":", " ", "Y", "e", "s">>>>,
      <<"str", <<"M", "e", "l", "t", "e", "d", " ", "a", "n", "d", " ", "p", "o", "u", "r", "e", "d", " ", "i", "n", " ", "U", "S">>>> }

\* the raw answer dicts for a list of questions: one option per question
RECURSIVE RawDicts(_)
RawDicts(qs) ==
    IF qs = <<>> THEN {EmptyDict}
    ELSE LET last == qs[Len(qs)]
         IN  {Put(d, last.index, r) :
                 d \in RawDicts(SubSeq(qs, 1, Len(qs) - 1)),
                 r \in RawOptions(last.type)}

\* the same, with or without a remark
Submissions(qs) ==
    RawDicts(qs) \cup {Put(d, Len(qs), r) : d \in RawDicts(qs), r \in Remarks}

\* a country code as the evaluator's answers hold it
CountryTexts == << <<"U", "S">>, <<"C", "N">> >>

CountryNames == << "US", "CN" >>

\* a normalized answer as the evaluator's answers hold it: a percentage as
\* the whole number it is, a text as the string of its characters
EvaluatorValue(v) ==
    CASE v[1] = "bool" -> v[2]
      [] v[1] = "float" -> v[2] * Pow10(v[3])
      [] OTHER -> IF IndexIn(CountryTexts, v[2]) > 0
                  THEN CountryNames[IndexIn(CountryTexts, v[2])]
                  ELSE "other"

EvaluatorAnswers(parsed_answers) ==
    [k \in DOMAIN parsed_answers |-> EvaluatorValue(parsed_answers[k])]

\* one submission: the questions of the planner, answered under their
\* indexes, evaluated by the evaluation endpoint and by the catalog path
EvaluateBothPaths ==
    /\ outcome = "idle"
    /\ \E cats \in PathCategorySets, o \in PathOrigins :
          LET found_tariffs == DetectedList(AgainstTable(cats), 4)
              qs == get_required_questions(found_tariffs, o)
              formatted == [i \in DOMAIN qs |-> FormatQuestion(qs[i])]
          IN  \E raw \in Submissions(qs) :
                 /\ questions' = qs
                 /\ raw_answers' = raw
                 /\ Evaluate(CallInput(AgainstTable(cats),
                        EvaluatorAnswers(
                            parsed_answers_after(formatted, raw, EmptyDict)),
                        o, 4))
                 /\ catalog' = analyze_stacking_with_exemptions(
                                   o, found_tariffs, raw)
    /\ UNCHANGED parsed

NextPaths == EvaluateBothPaths

SpecPaths == Init /\ [][NextPaths]_vars

----------------------------------------------------------------------------
(* The question endpoint *)

\* origins of the question requests: USMCA, China with Hong Kong and Macau,
\* EU member states, Japan, South Korea, Column 2 countries, two countries
\* under no special rule, and a missing origin
QuestionOrigins ==
    {"CA", "MX", "CN", "HK", "MO", "DE", "FR", "JP", "KR", "RU", "BY",
     "BR", "US", ""}

\* the requests: every set of categories with every origin, and every list of
\* detected tariffs with two origins
QuestionRequests ==
    {CallInput(AgainstTable(cats), EmptyDict, o, 4) :
        cats \in CategorySets, o \in QuestionOrigins}
    \cup
    {CallInput(KindsAt(ix), EmptyDict, o, 4) :
        ix \in OrderedLists, o \in OrderOrigins}

\* generate_stacking_questions: the planner run on the found tariffs and the
\* origin of the request
GenerateQuestions ==
    /\ outcome = "idle"
    /\ \E inp \in QuestionRequests :
          /\ tariffs' = inp.tariffs
          /\ product_info' = inp.product_info
          /\ questions' = get_required_questions(inp.tariffs,
                                                 inp.product_info.origin_country)
    /\ outcome' = "asked"
    /\ UNCHANGED <<answers, results, hts_based_232_applies,
                   section_232_results, earlier, response, raw_answers,
                   catalog, parsed>>

NextQuestions == GenerateQuestions

SpecQuestions == Init /\ [][NextQuestions]_vars

----------------------------------------------------------------------------
(* Normalizing one answer *)

\* longest raw text made of RawChars
MaxAnswerLen == 4

\* the characters of the texts tried in every combination
RawChars == {" ", "%", "1", "5", ".", "-"}

TextsUpTo(chars, n) == UNION {[1..m -> chars] : m \in 0..n}

\* raw answers of other shapes: the words of a boolean in several cases and
\* paddings, other words, country codes, an exponent, a doubled percent
\* sign, and JSON numbers, booleans and null
ListedAnswers ==
    { <<"str", <<"Y", "e", "s">>>>, <<"str", <<"y", "e", "s">>>>,
      <<"str", <<" ", "Y", "E", "S", " ">>>>, <<"str", <<"T", "R", "U", "E">>>>,
      <<"str", <<"t", "r", "u", "e">>>>, <<"str", <<"N", "o">>>>,
      <<"str", <<"y">>>>, <<"str", <<"o", "n">>>>,
      <<"str", <<"u", "s">>>>, <<"str", <<" ", "U", "s", "\t">>>>,
      <<"str", <<"U", "S">>>>, <<"str", <<"c", "n", " ">>>>,
      <<"str", <<"2", "5", "%">>>>, <<"str", <<"2", "5", ".", "0", " ", "%">>>>,
      <<"str", <<"1", "e", "1">>>>, <<"str", <<"5", "%", "%">>>>,
      <<"str", <<"+", "5">>>>, <<"str", <<"a", "b", "c">>>>,
      <<"int", 25>>, <<"int", 0>>, <<"int", 1>>,
      <<"bool", TRUE>>, <<"bool", FALSE>>, <<"NoneType">> }

RawAnswers ==
    {<<"str", s>> : s \in TextsUpTo(RawChars, MaxAnswerLen)} \cup ListedAnswers

\* the kinds of question, and one the planner does not use
QuestionTypes == {"boolean", "slider", "country_select", "date"}

\* one raw answer normalized by parse_answer and, as the answer to a question
\* of the same kind, by the evaluation endpoint
NormalizeAnswer ==
    /\ outcome = "idle"
    /\ \E answer \in RawAnswers, question_type \in QuestionTypes :
          parsed' = Normalization(answer, question_type,
                        parse_answer(answer, question_type),
                        parsed_answers_after(
                            <<FormatQuestion(Question("id", 0, question_type))>>,
                            [i \in {0} |-> answer], EmptyDict))
    /\ outcome' = "parsed"
    /\ UNCHANGED <<tariffs, answers, product_info, results,
                   hts_based_232_applies, section_232_results, earlier,
                   response, questions, raw_answers, catalog>>

NextNormalize == NormalizeAnswer

SpecNormalize == Init /\ [][NextNormalize]_vars

----------------------------------------------------------------------------
(* Calls over other rates *)

\* most tariffs of a call in the behaviours that vary the rate
MaxRatedTariffs == 2

\* rates in percent: none, one below the assembly rebate of 1.2375 points,
\* and the base rate of the automotive tariff
Rates == {0, 1, 25}

\* the origins of Origins, with Hong Kong and Macau
RatedOrigins == Origins \cup {"HK", "MO"}

\* a detected tariff of the same category at another rate
Rated(kind, rate) == Kind(kind.category, kind.code, kind.name, rate)

RatedCategorySets ==
    {c \in SUBSET CategoriesOf(KindList) :
        Cardinality(c) \in 1..MaxRatedTariffs}

RatedList(cats, rate) ==
    [i \in DOMAIN AgainstTable(cats) |-> Rated(AgainstTable(cats)[i], rate)]

\* answers that a client may send although no logic of the call reads them
\* for the origin: none, or the USMCA and the two USTR answers, all true
UnreadProfiles ==
    { EmptyDict,
      [usmca_qualified |-> TRUE, ustr_product_exclusion |-> TRUE,
       ustr_manufacturing_equipment |-> TRUE] }

\* the answer dicts of AnswersFor, each also filled up with an unread profile
RatedAnswers(cats, origin) ==
    {a @@ e : a \in AnswersFor(cats, origin), e \in UnreadProfiles}

\* the first call of a process: a set of categories at one of the rates
AnalyzeRated ==
    /\ outcome = "idle"
    /\ \E cats \in RatedCategorySets, rate \in Rates, o \in RatedOrigins,
          v \in Values :
          \E a \in RatedAnswers(cats, o) :
             Call(CallInput(RatedList(cats, rate), a, o, v))

NextRates == AnalyzeRated

SpecRates == Init /\ [][NextRates]_vars

----------------------------------------------------------------------------
(* The totals in binary floating point *)

\* bits of the significand of a Python float
Precision == 53

\* a natural number in binary: its bits, the least significant first, the
\* last one 1; << >> is zero
RECURSIVE Trim(_)
Trim(b) ==
    IF b = <<>> \/ b[Len(b)] = 1 THEN b ELSE Trim(SubSeq(b, 1, Len(b) - 1))

Low(b) == IF b = <<>> THEN 0 ELSE Head(b)

Rest(b) == IF b = <<>> THEN <<>> ELSE Tail(b)

\* a + b + carry
RECURSIVE AddBits(_, _, _)
AddBits(a, b, carry) ==
    IF a = <<>> /\ b = <<>>
    THEN IF carry = 1 THEN <<1>> ELSE <<>>
    ELSE <<(Low(a) + Low(b) + carry) % 2>>
         \o AddBits(Rest(a), Rest(b), (Low(a) + Low(b) + carry) \div 2)

\* a - b - borrow, for a >= b + borrow; not trimmed
RECURSIVE SubBits(_, _, _)
SubBits(a, b, borrow) ==
    IF a = <<>> THEN <<>>
    ELSE <<(Low(a) - Low(b) - borrow + 2) % 2>>
         \o SubBits(Rest(a), Rest(b),
                    IF Low(a) - Low(b) - borrow < 0 THEN 1 ELSE 0)

\* a < b, for trimmed a and b
RECURSIVE LessBits(_, _)
LessBits(a, b) ==
    IF Len(a) # Len(b) THEN Len(a) < Len(b)
    ELSE IF a = <<>> THEN FALSE
    ELSE IF Rest(a) = Rest(b) THEN Low(a) < Low(b)
    ELSE LessBits(Rest(a), Rest(b))

\* b * 2^k
Shifted(b, k) == IF b = <<>> THEN <<>> ELSE [i \in 1..k |-> 0] \o b

\* a float: (-1)^neg * m * 2^e with m of at most Precision bits; exponents
\* stay far from the ends of the range, so no overflow and no subnormal
Float64(neg, m, e) == [m |-> m, e |-> e, neg |-> neg]

\* the same value with an odd m, or 0.0
RECURSIVE Canonical(_)
Canonical(x) ==
    IF x.m = <<>> THEN Float64(FALSE, <<>>, 0)
    ELSE IF Head(x.m) = 1 THEN x
    ELSE Canonical(Float64(x.neg, Tail(x.m), x.e + 1))

\* the float nearest to (-1)^neg * m * 2^e, ties to even
Rounded(neg, m, e) ==
    IF Len(m) <= Precision THEN Canonical(Float64(neg, m, e))
    ELSE LET k == Len(m) - Precision
             kept == SubSeq(m, k + 1, Len(m))
             up == /\ m[k] = 1
                   /\ \/ kept[1] = 1
                      \/ \E i \in 1..(k - 1) : m[i] = 1
         IN  Canonical(Float64(neg,
                 IF up THEN AddBits(kept, <<1>>, 0) ELSE kept, e + k))

Minimum(a, b) == IF a < b THEN a ELSE b

\* a + b on floats
FloatAdd(a, b) ==
    LET e == Minimum(a.e, b.e)
        ma == Shifted(a.m, a.e - e)
        mb == Shifted(b.m, b.e - e)
    IN  IF a.neg = b.neg THEN Rounded(a.neg, AddBits(ma, mb, 0), e)
        ELSE IF LessBits(ma, mb)
        THEN Rounded(b.neg, Trim(SubBits(mb, ma, 0)), e)
        ELSE Rounded(a.neg, Trim(SubBits(ma, mb, 0)), e)

\* a - b on floats
FloatSub(a, b) == FloatAdd(a, Float64(~b.neg, b.m, b.e))

\* a <= b on floats
FloatLeq(a, b) == \E d \in {FloatSub(b, a)} : ~d.neg

\* abs(a) >= abs(b)
MagnitudeGeq(a, b) ==
    FloatLeq(Float64(FALSE, b.m, b.e), Float64(FALSE, a.m, a.e))

\* 0.0, and the int 0 that sum() starts from
Zero == Float64(FALSE, <<>>, 0)

\* sum() of CPython up to 3.11: the additions one after the other
RECURSIVE FoldSum(_, _)
FoldSum(f_result, xs) ==
    IF xs = <<>> THEN f_result
    ELSE FoldSum(FloatAdd(f_result, Head(xs)), Tail(xs))

\* sum() of CPython from 3.12: Neumaier's compensated summation, the
\* compensation c added at the end
RECURSIVE CompensatedSum(_, _, _)
CompensatedSum(f_result, c, xs) ==
    IF xs = <<>> THEN FloatAdd(f_result, c)
    ELSE LET x == Head(xs)
             t == FloatAdd(f_result, x)
         IN  CompensatedSum(t,
                 IF MagnitudeGeq(f_result, x)
                 THEN FloatAdd(c, FloatAdd(FloatSub(f_result, t), x))
                 ELSE FloatAdd(c, FloatAdd(FloatSub(x, t), f_result)),
                 Tail(xs))

\* sum(xs): 0 + xs[1] by the addition of the objects, the rest by the loop
\* over floats of the interpreter's version
PySum(xs, version) ==
    IF xs = <<>> THEN Zero
    ELSE IF version = "3.11" THEN FoldSum(FloatAdd(Zero, Head(xs)), Tail(xs))
    ELSE CompensatedSum(FloatAdd(Zero, Head(xs)), Zero, Tail(xs))

\* the bits of a hexadecimal digit, and of a list of them
HexBits(d) == <<d % 2, (d \div 2) % 2, (d \div 4) % 2, d \div 8>>

RECURSIVE BitsOfHex(_)
BitsOfHex(ds) ==
    IF ds = <<>> THEN <<>> ELSE BitsOfHex(Tail(ds)) \o HexBits(Head(ds))

\* float.fromhex('0x1.<digits>p<p>')
FromHex(digits, p) ==
    Canonical(Float64(FALSE, BitsOfHex(digits) \o <<1>>, p - 4 * Len(digits)))

\* the float of each rate, keyed by the rate in percent: (0.05).hex() is
\* '0x1.999999999999ap-5', and so on
RATE_FLOATS ==
    ( 5 :> FromHex(<<9, 9, 9, 9, 9, 9, 9, 9, 9, 9, 9, 9, 10>>, -5)
   @@ 10 :> FromHex(<<9, 9, 9, 9, 9, 9, 9, 9, 9, 9, 9, 9, 10>>, -4)
   @@ 20 :> FromHex(<<9, 9, 9, 9, 9, 9, 9, 9, 9, 9, 9, 9, 10>>, -3)
   @@ 25 :> FromHex(<<0>>, -2)
   @@ 30 :> FromHex(<<3, 3, 3, 3, 3, 3, 3, 3, 3, 3, 3, 3, 3>>, -2)
   @@ 50 :> FromHex(<<0>>, -1) )

RECURSIVE Log2(_)
Log2(v) == IF v = 1 THEN 0 ELSE 1 + Log2(v \div 2)

\* value * x for a value that is a power of two: the product is exact
TimesPowerOfTwo(value, x) == Float64(x.neg, x.m, x.e + Log2(value))

\* the float of an amount of the calls below, where every final_amount is 0
\* or the nominal amount value * rate
AmountFloat(amount, rate, value) ==
    CASE amount = 0 -> Zero
      [] amount # 0 /\ amount = FullAmount(value, rate) ->
            TimesPowerOfTwo(value, RATE_FLOATS[rate])

\* total_before, total_after and savings as the endpoint's sums over floats
\* form them
FloatTotals(found_tariffs, analyzed_tariffs, value, version) ==
    LET total_before ==
            PySum([i \in DOMAIN found_tariffs |->
                      AmountFloat(found_tariffs[i].amount,
                                  found_tariffs[i].rate, value)], version)
        total_after ==
            PySum([i \in DOMAIN analyzed_tariffs |->
                      AmountFloat(analyzed_tariffs[i].final_amount,
                                  analyzed_tariffs[i].rate, value)], version)
    IN  Totals(total_before, total_after, FloatSub(total_before, total_after))

\* longest tariff list of a call whose totals are formed in floats
MaxSummedTariffs == 3

\* the categories whose verdict is the nominal amount or 0
SummedCategories ==
    {"unknown", "section_201", "ieepa_fentanyl", "section_301",
     "section_232_buses", "ieepa_reciprocal"}

\* the lists of 1..MaxSummedTariffs detected tariffs of different categories,
\* in every order
SummedLists ==
    {KindsAt(ix) : ix \in
        {s \in SeqsUpTo({i \in DOMAIN KindList :
                            KindList[i].category \in SummedCategories},
                        MaxSummedTariffs) :
            \A i, j \in DOMAIN s : i # j => s[i] # s[j]}}

\* shipment values that are powers of two
SummedValues == {1, 2, 4}

SummedOrigins == {"CN", "BR"}

SummedAnswers == {EmptyDict, [ustr_product_exclusion |-> TRUE]}

\* the float loop of sum() before and from CPython 3.12
Versions == {"3.11", "3.12"}

\* one call of the evaluation endpoint, its totals formed in floats
AnalyzeAndTotal ==
    /\ outcome = "idle"
    /\ \E kinds \in SummedLists, a \in SummedAnswers, o \in SummedOrigins :
       \E v \in SummedValues, version \in Versions :
       \E inp \in {CallInput(kinds, a, o, v)} :
       \E st \in {analyze_stacking(inp.tariffs, inp.answers, inp.product_info,
                                   hts_based_232_applies, section_232_results)} :
          /\ tariffs' = inp.tariffs
          /\ answers' = inp.answers
          /\ product_info' = inp.product_info
          /\ outcome' = IF st.raised THEN "raised" ELSE "returned"
          /\ results' = IF st.raised THEN <<>> ELSE st.results
          /\ hts_based_232_applies' = st.hts_based_232_applies
          /\ section_232_results' = st.section_232_results
          /\ response' = IF st.raised THEN NoTotals
                         ELSE FloatTotals(inp.tariffs, st.results, v, version)
    /\ UNCHANGED <<earlier, questions, raw_answers, catalog, parsed>>

NextTotals == AnalyzeAndTotal

SpecTotals == Init /\ [][NextTotals]_vars

----------------------------------------------------------------------------
(* Vocabulary of the properties *)

Returned == outcome = "returned"

Origin == product_info.origin_country

InputCategories == {tariffs[i].category : i \in DOMAIN tariffs}

\* the entries of the returned list for a set of categories
ResultsIn(cats) == {results[i] : i \in {j \in DOMAIN results : results[j].category \in cats}}

\* an HTS-based Section 232 entry of the returned list is not excluded
HtsVerdictApplies == \E r \in ResultsIn(HTS_CATEGORIES) : ~r.excluded

\* the detected tariff inside an entry of the returned list
TariffPart(r) == DetectedTariff(r.category, r.code, r.name, r.rate, r.amount)

ErrorReasonings ==
    { "ERROR: Total Section 232 material percentages exceed 100%. ",
      "ERROR: US content percentage (" }

RequiresData == "REQUIRES DATA: Product from "

\* the priority table as the specification words it
PriorityTable ==
    << "section_301", "ieepa_fentanyl", "section_232_automotive",
       "section_232_buses", "section_232_steel", "section_232_aluminum",
       "section_232_copper", "section_232_lumber", "ieepa_reciprocal" >>

\* position of a category in PriorityTable, one past its end when unlisted
Rank(cat) ==
    IF \E i \in DOMAIN PriorityTable : PriorityTable[i] = cat
    THEN CHOOSE i \in DOMAIN PriorityTable : PriorityTable[i] = cat
    ELSE Len(PriorityTable) + 1

Ranks == 1..(Len(PriorityTable) + 1)

\* the tariffs of one rank, in list order
OfRank(ts, n) == SelectSeq(ts, LAMBDA t : Rank(t.category) = n)

----------------------------------------------------------------------------
(* C1 *)

\* C1: analyze_stacking never raises: every call with a structurally valid
\* input returns normally, with one verdict per tariff.
C1_NeverRaises ==
    outcome # "idle" => Returned /\ Len(results) = Len(tariffs)

\* where C1 fails: the call with an ieepa_reciprocal tariff, an EU/JP/KR
\* origin and a Column-1 rate below 15 is left by an exception
C1_RaisedOnColumn1 ==
    outcome = "raised"
    => /\ "ieepa_reciprocal" \in InputCategories
       /\ Origin \in special_calculation_countries
       /\ "column_1_duty_rate" \in DOMAIN answers
       /\ answers["column_1_duty_rate"] < 15

----------------------------------------------------------------------------
(* C2 *)

\* C2: every entry of every returned list satisfies excluded => final_amount = 0.
C2_ExcludedIsZero ==
    \A i \in DOMAIN results : results[i].excluded => results[i].final_amount = 0

----------------------------------------------------------------------------
(* C3 *)

\* C3: in one call, whatever the input order and the material answers, when
\* an automotive or buses entry is not excluded, every steel, aluminum,
\* copper and lumber entry is excluded with final_amount 0.
C3_HtsSupersedesMaterials ==
    Returned /\ HtsVerdictApplies
    => \A r \in ResultsIn(MATERIAL_CATEGORIES) : r.excluded /\ r.final_amount = 0

\* C3's case: a material tariff listed before the applying HTS-based tariff,
\* with a declared share that its own logic would have charged
C3_Witness ==
    /\ Returned /\ HtsVerdictApplies
    /\ \E i, j \in DOMAIN tariffs :
          /\ i < j
          /\ tariffs[i].category \in MATERIAL_CATEGORIES
          /\ tariffs[j].category \in HTS_CATEGORIES
          /\ Get(answers, MaterialKey[tariffs[i].category], 0) > 0
    /\ product_info.value > 0
    /\ ~Get(answers, "usmca_qualified", FALSE)

----------------------------------------------------------------------------
(* C4 *)

\* C4: the returned list is in the order of the priority table, unlisted
\* categories after all listed ones, and tariffs of equal priority in their
\* input order.
C4_SortedByPriority ==
    Returned
    => /\ \A i, j \in DOMAIN results :
             i < j => Rank(results[i].category) <= Rank(results[j].category)
       /\ \A n \in Ranks :
             OfRank([i \in DOMAIN results |-> TariffPart(results[i])], n)
                = OfRank(tariffs, n)

\* C4's case: an input that is out of order, with an unlisted category ahead
\* of a listed one and two different tariffs of one priority
C4_Witness ==
    /\ Returned
    /\ \E i, j \in DOMAIN tariffs :
          i < j /\ Rank(tariffs[i].category) > Rank(tariffs[j].category)
                /\ Rank(tariffs[i].category) = Len(PriorityTable) + 1
    /\ \E i, j \in DOMAIN tariffs :
          i < j /\ Rank(tariffs[i].category) = Rank(tariffs[j].category)
                /\ tariffs[i] # tariffs[j]

----------------------------------------------------------------------------
(* C5 *)

Count(seq, x) == Cardinality({i \in DOMAIN seq : seq[i] = x})

IsPermutation(a, b) ==
    /\ Len(a) = Len(b)
    /\ \A i \in DOMAIN a : Count(a, a[i]) = Count(b, a[i])

SameAnswersAndProduct ==
    earlier.answers = answers /\ earlier.product_info = product_info

SameOutput == earlier.outcome = outcome /\ earlier.results = results

\* C5 as claimed: two calls whose tariff lists are permutations of each
\* other, with the same answers and product info, return identical lists.
C5_AnyPermutation ==
    /\ earlier.outcome # "idle"
    /\ IsPermutation(earlier.tariffs, tariffs)
    /\ SameAnswersAndProduct
    => SameOutput

\* C5 amended: two calls whose tariff lists are permutations of each other
\* that list the tariffs of equal priority in the same relative order, with
\* the same answers and product info, return identical lists.
C5_TiePreservingPermutation ==
    /\ earlier.outcome # "idle"
    /\ \A n \in Ranks : OfRank(earlier.tariffs, n) = OfRank(tariffs, n)
    /\ SameAnswersAndProduct
    => SameOutput

\* C5's case: a different order of the same tariffs, returned
C5_Witness ==
    /\ earlier.outcome = "returned" /\ Returned
    /\ earlier.tariffs # tariffs
    /\ \A n \in Ranks : OfRank(earlier.tariffs, n) = OfRank(tariffs, n)
    /\ SameAnswersAndProduct
    /\ Len(tariffs) > 1
    /\ earlier.results = results

----------------------------------------------------------------------------
(* C6 *)

\* C6: no state survives between calls: the locals of a call come from its
\* own tariffs only (hts_based_232_applies is set only by an HTS-based
\* verdict of this call, section_232_results holds only materials of this
\* call), the returned entries carry the input tariffs unchanged, and a call
\* repeated with identical inputs after other calls returns the same list.
C6_NoStateSurvives ==
    /\ hts_based_232_applies => Returned /\ HtsVerdictApplies
    /\ \A m \in DOMAIN section_232_results :
          \E c \in InputCategories \cap MATERIAL_CATEGORIES : MaterialOf[c] = m
    /\ Returned => IsPermutation([i \in DOMAIN results |-> TariffPart(results[i])],
                                 tariffs)
    /\ ( /\ earlier.outcome # "idle"
         /\ earlier.tariffs = tariffs
         /\ SameAnswersAndProduct
         => SameOutput )

\* C6's case: the same input again, with at least one other call made
\* in between
C6_Witness ==
    /\ earlier.outcome = "returned" /\ earlier.since = 2
    /\ earlier.tariffs = tariffs /\ SameAnswersAndProduct
    /\ Returned /\ earlier.results = results
    /\ \E r \in ResultsIn(MATERIAL_CATEGORIES) : ~r.excluded

----------------------------------------------------------------------------
(* C7 *)

\* C7: an ieepa_fentanyl entry is not excluded and charged its nominal amount
\* when the origin is CN, HK or MO, whatever the answers and the other
\* tariffs of the call; with any other origin it is excluded with
\* final_amount 0.
C7_FentanylByOrigin ==
    Returned
    => \A r \in ResultsIn({"ieepa_fentanyl"}) :
          IF Origin \in {"CN", "HK", "MO"}
          THEN ~r.excluded /\ r.final_amount = r.amount
          ELSE r.excluded /\ r.final_amount = 0

\* C7's case: a fentanyl tariff from China, charged in full next to another
\* tariff that the answers exempt
C7_Witness ==
    /\ Returned /\ Origin = "CN"
    /\ \E r \in ResultsIn({"ieepa_fentanyl"}) : ~r.excluded /\ r.final_amount > 0
    /\ \E i \in DOMAIN results :
          /\ results[i].category # "ieepa_fentanyl"
          /\ results[i].excluded /\ results[i].exemption_code # "N/A"
    /\ Get(answers, "is_humanitarian_donation", FALSE)

----------------------------------------------------------------------------
(* C8 *)

IsValidationError(r) ==
    /\ ~r.excluded /\ r.exemption_code = None /\ r.final_amount = 0
    /\ r.reasoning \in ErrorReasonings

\* the percentages the answers declare
DeclaredSum ==
      Get(answers, "steel_percentage", 0) + Get(answers, "aluminum_percentage", 0)
    + Get(answers, "copper_percentage", 0) + Get(answers, "lumber_percentage", 0)

\* the percentages declared for the materials whose entry is not excluded
AppliedSum ==
    LET part(c) == IF \E r \in ResultsIn({c}) : ~r.excluded
                   THEN Get(answers, MaterialKey[c], 0) ELSE 0
    IN  part("section_232_steel") + part("section_232_aluminum")
        + part("section_232_copper") + part("section_232_lumber")

\* C8 as claimed: in any call with an ieepa_reciprocal tariff, declared
\* percentages that sum to more than 100 give the validation-error verdict.
C8_DeclaredSumOver100 ==
    /\ outcome # "idle"
    /\ "ieepa_reciprocal" \in InputCategories
    /\ DeclaredSum > 100
    => /\ Returned
       /\ \A r \in ResultsIn({"ieepa_reciprocal"}) : IsValidationError(r)

\* C8 amended: when the origin is neither a Column 2 country nor EU/JP/KR, the
\* humanitarian answer is not true, and the percentages declared for the
\* materials whose Section 232 verdict of the call is not excluded sum to
\* more than 100, the ieepa_reciprocal verdict is the validation error.
C8_AppliedSumOver100 ==
    /\ outcome # "idle"
    /\ "ieepa_reciprocal" \in InputCategories
    /\ Origin \notin column_2_countries \cup special_calculation_countries
    /\ ~Get(answers, "is_humanitarian_donation", FALSE)
    /\ AppliedSum > 100
    => /\ Returned
       /\ \A r \in ResultsIn({"ieepa_reciprocal"}) :
             /\ IsValidationError(r)
             /\ r.reasoning = "ERROR: Total Section 232 material percentages exceed 100%. "

\* C8's case: two charged materials declared at 60% each, with lumber
C8_Witness ==
    /\ Returned /\ AppliedSum > 100
    /\ \E r \in ResultsIn({"section_232_lumber"}) : ~r.excluded
    /\ \E r \in ResultsIn({"ieepa_reciprocal"}) :
          IsValidationError(r) /\ r.amount > 0

----------------------------------------------------------------------------
(* C9 *)

NeedsInputCase ==
    /\ "ieepa_reciprocal" \in InputCategories
    /\ Origin \in special_calculation_countries
    /\ "column_1_duty_rate" \notin DOMAIN answers
    /\ ~Get(answers, "is_humanitarian_donation", FALSE)

IsNeedsMoreInput(r) ==
    /\ ~r.excluded /\ r.exemption_code = None /\ r.final_amount = 0
    /\ r.reasoning = RequiresData

\* C9: with an EU/JP/KR origin, no Column-1 answer and no true humanitarian
\* answer, the call returns and the ieepa_reciprocal verdict is the
\* needs-more-input verdict; no other ieepa_reciprocal verdict, applying or
\* excluded, carries its reasoning.
C9_NeedsMoreInput ==
    /\ outcome # "idle" /\ NeedsInputCase
       => Returned /\ \A r \in ResultsIn({"ieepa_reciprocal"}) : IsNeedsMoreInput(r)
    /\ \A r \in ResultsIn({"ieepa_reciprocal"}) :
          r.reasoning = RequiresData => NeedsInputCase

\* C9's case: a reciprocal tariff of non-zero nominal amount from Germany,
\* with another answer present but no Column-1 rate
C9_Witness ==
    /\ Returned /\ NeedsInputCase /\ Origin = "DE"
    /\ "us_content_percentage" \in DOMAIN answers
    /\ \E r \in ResultsIn({"ieepa_reciprocal"}) :
          IsNeedsMoreInput(r) /\ r.amount > 0

----------------------------------------------------------------------------
(* C10 *)

\* C10: a steel or aluminum entry, when no HTS-based entry applies, the origin
\* is CA or MX, the declared percentage is not 0 and usmca_qualified is true,
\* is excluded with final_amount 0 and code 9903.01.26 (CA) or 9903.01.27 (MX).
C10_UsmcaExemption ==
    /\ outcome # "idle"
    /\ Origin \in {"CA", "MX"}
    /\ Get(answers, "usmca_qualified", FALSE)
    => /\ Returned
       /\ \A r \in ResultsIn({"section_232_steel", "section_232_aluminum"}) :
             ~HtsVerdictApplies /\ Get(answers, MaterialKey[r.category], 0) # 0
             => /\ r.excluded /\ r.final_amount = 0
                /\ r.exemption_code =
                      (IF Origin = "CA" THEN "9903.01.26" ELSE "9903.01.27")

\* C10's case: aluminum from Mexico, declared and USMCA-qualified, next to an
\* automotive tariff that does not set hts_based_232_applies
C10_Witness ==
    /\ Returned /\ Origin = "MX" /\ Get(answers, "usmca_qualified", FALSE)
    /\ ~HtsVerdictApplies
    /\ ResultsIn({"section_232_automotive"}) # {}
    /\ \E r \in ResultsIn({"section_232_aluminum"}) :
          /\ Get(answers, "aluminum_percentage", 0) > 0
          /\ r.exemption_code = "9903.01.27" /\ r.amount > 0

----------------------------------------------------------------------------
(* C11 *)

Asked == outcome = "asked"

QuestionIds == {questions[i].id : i \in DOMAIN questions}

\* C11: the ids of a generated question list are pairwise distinct, and the
\* index of the question at position i of the list is i - 1: the indexes are
\* 0, 1, ..., n-1 in list order, and an index names one question id.
C11_DistinctIdsContiguousIndexes ==
    Asked
    => /\ \A i, j \in DOMAIN questions :
             i # j => questions[i].id # questions[j].id
       /\ \A i \in DOMAIN questions : questions[i].index = i - 1

\* C11's case: steel and aluminum from a USMCA country, where both blocks
\* would ask usmca_qualified, followed by the reciprocal questions
C11_Witness ==
    /\ Asked /\ Origin \in USMCA_COUNTRIES
    /\ {"section_232_steel", "section_232_aluminum", "ieepa_reciprocal"}
          \subseteq InputCategories
    /\ Len(questions) = 4
    /\ questions[4].index = 3

----------------------------------------------------------------------------
(* C12 *)

\* the categories of the request whose block of the planner asks an id
CategoriesAsking(id) ==
    InputCategories \cap
    ( CASE id \in {"steel_percentage", "steel_origin_country",
                   "steel_melted_poured_us"} -> {"section_232_steel"}
        [] id \in {"aluminum_percentage", "aluminum_origin_country",
                   "aluminum_smelted_cast_us"} -> {"section_232_aluminum"}
        [] id = "usmca_qualified" ->
                {"section_232_steel", "section_232_aluminum"}
        [] id \in {"ustr_product_exclusion", "ustr_manufacturing_equipment"} ->
                {"section_301"}
        [] id \in {"column_1_duty_rate", "is_humanitarian_donation",
                   "us_content_percentage", "is_informational_materials"} ->
                {"ieepa_reciprocal"}
        [] OTHER -> {} )

\* the order in which the planner takes its blocks
BlockOrder ==
    << "section_232_steel", "section_232_aluminum", "section_301",
       "ieepa_reciprocal" >>

BlockRank(cat) == CHOOSE i \in DOMAIN BlockOrder : BlockOrder[i] = cat

\* C12 as claimed: the questions of a category that comes earlier in the
\* priority table all come before the questions of a category that comes
\* later in it.
C12_QuestionsInTableOrder ==
    Asked
    => \A i, j \in DOMAIN questions :
          \A c \in CategoriesAsking(questions[i].id),
             d \in CategoriesAsking(questions[j].id) :
             i # j /\ Rank(c) < Rank(d) => i < j

\* C12 amended: the questions come in the fixed order section_232_steel,
\* section_232_aluminum, section_301, ieepa_reciprocal: the questions of a
\* category earlier in that order all come before those of a later one.
C12_QuestionsInBlockOrder ==
    Asked
    => \A i, j \in DOMAIN questions :
          \A c \in CategoriesAsking(questions[i].id),
             d \in CategoriesAsking(questions[j].id) :
             i # j /\ BlockRank(c) < BlockRank(d) => i < j

\* C12's case: a Chinese shipment with steel, section_301 and reciprocal
\* tariffs, whose section_301 questions follow the steel questions
C12_Witness ==
    /\ Asked /\ Origin = "CN"
    /\ InputCategories =
          {"section_232_steel", "section_301", "ieepa_reciprocal"}
    /\ Len(questions) = 8
    /\ questions[1].id = "steel_percentage"
    /\ questions[4].id = "ustr_product_exclusion"
    /\ questions[8].id = "is_informational_materials"

----------------------------------------------------------------------------
(* C13 *)

\* the ids of the questions the planner generates for the tariffs and the
\* origin of the call
PlannedIds ==
    LET qs == get_required_questions(tariffs, Origin)
    IN  {qs[i].id : i \in DOMAIN qs}

\* the call made again with only the answers to planner questions
WithPlannedAnswers ==
    analyze_stacking(tariffs, Restrict(answers, PlannedIds), product_info,
                     FALSE, EmptyDict)

\* C13: every answer id the evaluator reads for the categories and the origin
\* of a call is the id of a question the planner generates for them: the
\* answers to the planner's questions alone give the call the same outcome
\* and the same verdicts.
C13_PlannerAsksWhatIsRead ==
    outcome # "idle"
    => /\ WithPlannedAnswers.raised = (outcome = "raised")
       /\ Returned => WithPlannedAnswers.results = results

----------------------------------------------------------------------------
(* C14 *)

\* the ids of the planner table for the categories and origin of the request
TableIds ==
    LET metal == {"section_232_steel", "section_232_aluminum"}
        usmca == IF InputCategories \cap metal # {} /\ Origin \in {"CA", "MX"}
                 THEN {"usmca_qualified"} ELSE {}
        steel == IF "section_232_steel" \in InputCategories
                    /\ Origin \notin {"CA", "MX"}
                 THEN {"steel_percentage", "steel_origin_country",
                       "steel_melted_poured_us"}
                 ELSE {}
        aluminum == IF "section_232_aluminum" \in InputCategories
                       /\ Origin \notin {"CA", "MX"}
                    THEN {"aluminum_percentage", "aluminum_origin_country",
                          "aluminum_smelted_cast_us"}
                    ELSE {}
        s301 == IF "section_301" \in InputCategories
                   /\ Origin \in {"CN", "HK", "MO"}
                THEN {"ustr_product_exclusion", "ustr_manufacturing_equipment"}
                ELSE {}
        common == {"is_humanitarian_donation", "us_content_percentage",
                   "is_informational_materials"}
        reciprocal == IF "ieepa_reciprocal" \notin InputCategories THEN {}
                      ELSE IF Origin \in {"BY", "CU", "KP", "RU"} THEN {}
                      ELSE IF Origin \in eu_countries \cup {"JP", "KR"}
                      THEN {"column_1_duty_rate"} \cup common
                      ELSE common
    IN  usmca \cup steel \cup aluminum \cup s301 \cup reciprocal

\* the kind of question the planner table gives an id
TableType(id) ==
    IF id \in {"steel_percentage", "aluminum_percentage",
               "column_1_duty_rate", "us_content_percentage"}
    THEN "slider"
    ELSE IF id \in {"steel_origin_country", "aluminum_origin_country"}
    THEN "country_select"
    ELSE "boolean"

\* the origin selector a melt/cast question of the table depends on
TableSelector ==
    [steel_melted_poured_us   |-> "steel_origin_country",
     aluminum_smelted_cast_us |-> "aluminum_origin_country"]

\* C14: the ids of the generated questions are those of the planner table for
\* the categories and the origin, each once (one usmca_qualified even for
\* steel and aluminum together); each question has the kind the table gives
\* it; a melt/cast question, and no other, is conditional on its origin
\* selector being US; the product-exclusion question precedes the
\* manufacturing-equipment question.
C14_PlannerTable ==
    Asked
    => /\ QuestionIds = TableIds
       /\ Len(questions) = Cardinality(TableIds)
       /\ \A i \in DOMAIN questions :
             /\ questions[i].type = TableType(questions[i].id)
             /\ IF questions[i].id \in DOMAIN TableSelector
                THEN /\ "conditional" \in DOMAIN questions[i]
                     /\ questions[i].conditional =
                           Conditional("US", TableSelector[questions[i].id])
                ELSE "conditional" \notin DOMAIN questions[i]
       /\ \A i, j \in DOMAIN questions :
             /\ questions[i].id = "ustr_product_exclusion"
             /\ questions[j].id = "ustr_manufacturing_equipment"
             => i < j

\* C14's case: aluminum, reciprocal and fentanyl tariffs from Germany: three
\* aluminum questions, the Column-1 question and the three common questions
C14_Witness ==
    /\ Asked /\ Origin = "DE"
    /\ InputCategories =
          {"section_232_aluminum", "ieepa_reciprocal", "ieepa_fentanyl"}
    /\ Len(questions) = 7
    /\ questions[4].id = "column_1_duty_rate"

----------------------------------------------------------------------------
(* C15 *)

Normalized == outcome = "parsed"

\* the text of the raw answer, and what is left of it without percent signs
\* and surrounding whitespace
AnswerText == Str(parsed.answer)

NumberText == Strip(Without(AnswerText, "%"))

C15_SliderCases ==
    Normalized /\ parsed.question_type = "slider"
    => /\ parsed.answer = <<"str", <<"2", "5", ".", "0", " ", "%">>>>
          => parsed.returned = <<"float", 25, 0>>
       /\ parsed.answer = <<"str", <<"1", ".", "5", "%">>>>
          => parsed.returned = <<"float", 15, -1>>
       /\ parsed.answer = <<"str", <<"1", " ", "5">>>>
          => parsed.returned = <<"float", 0, 0>>
       /\ parsed.answer = <<"str", <<"-", ".", "5">>>>
          => parsed.returned = <<"float", -5, -1>>
       /\ parsed.answer = <<"str", <<"1", "e", "1">>>>
          => parsed.returned = <<"float", 1, 1>>

----------------------------------------------------------------------------
(* C16 *)

\* the nominal amounts of the input tariffs, and the final amounts of the
\* returned entries that are not excluded
NominalAmounts == [i \in DOMAIN tariffs |-> tariffs[i].amount]

ChargedAmounts ==
    [i \in DOMAIN results |->
        IF results[i].excluded THEN 0 ELSE results[i].final_amount]

\* C16: the totals of an evaluation are totalBefore = the sum of the nominal
\* amounts of the input tariffs, totalAfter = the sum of final_amount over the
\* entries that are not excluded, savings = totalBefore - totalAfter.
C16_TotalsOverNotExcluded ==
    Returned
    => /\ response.totalBefore = Sum(NominalAmounts)
       /\ response.totalAfter = Sum(ChargedAmounts)
       /\ response.savings = response.totalBefore - response.totalAfter

----------------------------------------------------------------------------
(* C17 *)

\* the ground on which the evaluator exempted an entry, read off its
\* reasoning
EvaluatorGround(entry) ==
    CASE entry.reasoning = "EXEMPT: USMCA-qualified product from " -> "usmca"
      [] entry.reasoning \in
            {"EXEMPT: Steel melted and poured in the United States",
             "EXEMPT: Aluminum smelted and cast in the United States"}
            -> "us_material"
      [] entry.reasoning = "EXEMPT: Product has " -> "us_content"
      [] OTHER -> "other"

\* the ground on which the catalog path exempted an entry, read off the
\* name of the rule that applied
CatalogGround(entry) ==
    CASE entry.reasoning \in {"USMCA Exemption: Canada Origin",
                              "USMCA Exemption: Mexico Origin"} -> "usmca"
      [] entry.reasoning \in {"U.S.-Origin Steel Exemption",
                              "U.S.-Origin Aluminum Exemption"}
            -> "us_material"
      [] entry.reasoning = "U.S. Content Exemption (>20%)" -> "us_content"
      [] OTHER -> "other"

OverlappingCategories ==
    {"section_232_steel", "section_232_aluminum", "ieepa_reciprocal"}

\* a submission that both paths have evaluated
BothEvaluated == outcome = "returned" /\ catalog # NoTotals

\* C17: for every steel, aluminum or reciprocal tariff that the evaluator
\* and the catalog path both exempt on the same ground (USMCA, US-origin
\* material, US content), the two entries carry the same exemption_code.
C17_PathsAgreeOnCodes ==
    BothEvaluated
    => \A i \in DOMAIN results, j \in DOMAIN catalog.stackingOrder :
          LET mine == results[i]
              theirs == catalog.stackingOrder[j]
          IN  /\ mine.category \in OverlappingCategories
              /\ mine.category = theirs.category
              /\ mine.excluded /\ theirs.excluded
              /\ EvaluatorGround(mine) # "other"
              /\ EvaluatorGround(mine) = CatalogGround(theirs)
              => mine.exemption_code = theirs.exemption_code

----------------------------------------------------------------------------
(* C18 *)

\* the catalog rules that carry a US-melt/cast-origin requirement, with the
\* answers the evaluator holds for the material: its country of origin and
\* the confirmation that it was melted and poured, or smelted and cast, in
\* the United States
UsOriginRules ==
    << [category |-> "section_232_steel",
        rule |-> SECTION_232_STEEL_EXEMPTIONS[3],
        origin_answer |-> "steel_origin_country",
        confirming_answer |-> "steel_melted_poured_us"],
       [category |-> "section_232_aluminum",
        rule |-> SECTION_232_ALUMINUM_EXEMPTIONS[3],
        origin_answer |-> "aluminum_origin_country",
        confirming_answer |-> "aluminum_smelted_cast_us"] >>

\* the rule applies to the submission that was evaluated
AppliesToSubmission(r) ==
    /\ \E i \in DOMAIN tariffs : tariffs[i].category = r.category
    /\ check_exemption_applies(r.rule, product_info.origin_country,
                               raw_answers)

\* the answers name US as the origin of the material and confirm the melt
AnswersSignalUsMaterial(r) ==
    /\ Get(answers, r.origin_answer, None) = "US"
    /\ Get(answers, r.confirming_answer, FALSE) = TRUE

\* C18: a catalog rule with a US-melt/cast-origin requirement (the US-origin
\* steel rule 9903.81.92, the US-origin aluminum rule) applies only if the
\* answers hold a material country of origin equal to US and a true melt or
\* cast confirmation.
C18_UsOriginRuleNeedsBothAnswers ==
    BothEvaluated
    => \A k \in DOMAIN UsOriginRules :
          AppliesToSubmission(UsOriginRules[k])
          => AnswersSignalUsMaterial(UsOriginRules[k])

----------------------------------------------------------------------------
(* C19 *)

\* a category outside the priority table
Unlisted(cat) == Rank(cat) = Len(PriorityTable) + 1

\* the input of the call without its tariffs of unlisted categories
ListedTariffs == SelectSeq(tariffs, LAMBDA t : ~Unlisted(t.category))

\* C19: a tariff of an unlisted category never makes analyze_stacking fail
\* (a call raises only if it raises without its unlisted tariffs too); its
\* entry comes after the entries of all listed categories, and its verdict
\* is excluded = false, no exemption code, final_amount = its nominal
\* amount, whatever the answers, the origin and hts_based_232_applies.
C19_UnlistedAppliesInFull ==
    /\ outcome = "raised"
       => analyze_stacking(ListedTariffs, answers, product_info,
                           FALSE, EmptyDict).raised
    /\ Returned
       => \A i \in DOMAIN results :
             Unlisted(results[i].category)
             => /\ \A j \in DOMAIN results :
                     ~Unlisted(results[j].category) => j < i
                /\ ~results[i].excluded
                /\ results[i].exemption_code = None
                /\ results[i].final_amount = results[i].amount

\* C19's case: a call with answers that returned an unlisted tariff given
\* ahead of a listed one, with hts_based_232_applies set and a material
\* entry superseded
C19_Witness ==
    /\ Returned
    /\ answers # EmptyDict
    /\ hts_based_232_applies
    /\ \E r \in ResultsIn(MATERIAL_CATEGORIES) : r = Merge(r, SupersededVerdict)
    /\ \E i, j \in DOMAIN tariffs :
          i < j /\ Unlisted(tariffs[i].category)
                /\ ~Unlisted(tariffs[j].category)

\* C19's other case: a call with an unlisted tariff that raised
C19_RaisedWithUnlisted ==
    /\ outcome = "raised"
    /\ \E i \in DOMAIN tariffs : Unlisted(tariffs[i].category)

----------------------------------------------------------------------------
(* C20 *)

\* an entry that charges the shipment
Charges(r) == r.final_amount > 0

\* C20: in no returned list do an HTS-based Section 232 entry (automotive,
\* buses) and a material-based Section 232 entry (steel, aluminum, copper,
\* lumber) both have final_amount > 0.
C20_HtsAndMaterialNeverBothCharge ==
    Returned
    => ~ /\ \E r \in ResultsIn(HTS_CATEGORIES) : Charges(r)
         /\ \E r \in ResultsIn(MATERIAL_CATEGORIES) : Charges(r)

----------------------------------------------------------------------------
(* C21 *)

\* C21: every verdict's final_amount is non-negative, for every rate >= 0,
\* value >= 0 and percentage within its slider range, the automotive tariffs
\* whose rate is below the assembly rebate included.
C21_FinalAmountNonNegative ==
    Returned => \A i \in DOMAIN results : results[i].final_amount >= 0

----------------------------------------------------------------------------
(* C22 *)

\* the answer is given and true
Answered(id) == Get(answers, id, FALSE) = TRUE

\* C22: Section 301 is decided in this order: an origin outside CN, HK, MO
\* is not applicable (excluded, final_amount 0) whatever the answers; else a
\* true product-exclusion answer exempts in full with code 9903.88.69, also
\* when the manufacturing-equipment answer is true; else a true
\* manufacturing-equipment answer exempts in full with code 9903.88.70;
\* else the tariff applies in full, final_amount = nominal amount.
C22_Section301DecisionOrder ==
    Returned
    => \A r \in ResultsIn({"section_301"}) :
          IF Origin \notin {"CN", "HK", "MO"}
          THEN r.excluded /\ r.final_amount = 0
          ELSE IF Answered("ustr_product_exclusion")
          THEN r.excluded /\ r.exemption_code = "9903.88.69"
               /\ r.final_amount = 0
          ELSE IF Answered("ustr_manufacturing_equipment")
          THEN r.excluded /\ r.exemption_code = "9903.88.70"
               /\ r.final_amount = 0
          ELSE ~r.excluded /\ r.final_amount = r.amount

\* C22's case: from Hong Kong, both answers true, a non-zero nominal amount
C22_Witness ==
    /\ Returned
    /\ Origin = "HK"
    /\ Answered("ustr_product_exclusion")
    /\ Answered("ustr_manufacturing_equipment")
    /\ \E r \in ResultsIn({"section_301"}) : r.amount > 0

\* C22's other cases: an origin outside China with both answers true; from
\* China with only the manufacturing-equipment answer; from China with
\* neither
C22_OutsideChinaAnswered ==
    /\ Returned
    /\ Origin \notin {"CN", "HK", "MO"}
    /\ Answered("ustr_product_exclusion")
    /\ \E r \in ResultsIn({"section_301"}) : r.amount > 0

C22_EquipmentOnly ==
    /\ Returned
    /\ Origin = "CN"
    /\ ~Answered("ustr_product_exclusion")
    /\ Answered("ustr_manufacturing_equipment")
    /\ \E r \in ResultsIn({"section_301"}) : r.amount > 0

----------------------------------------------------------------------------
(* C23 *)

\* the answers of a metal of Section 232: the country of origin of the
\* material and the melt or cast confirmation
MetalAnswers ==
    [section_232_steel |->
        [origin_answer |-> "steel_origin_country",
         confirming_answer |-> "steel_melted_poured_us"],
     section_232_aluminum |->
        [origin_answer |-> "aluminum_origin_country",
         confirming_answer |-> "aluminum_smelted_cast_us"]]

\* the declared percentage of a material category, 0 when not answered
Declared(cat) == Get(answers, MaterialKey[cat], 0)

UsmcaSatisfied == Origin \in {"CA", "MX"} /\ Answered("usmca_qualified")

UsMeltSatisfied(cat) ==
    /\ Get(answers, MetalAnswers[cat].origin_answer, "") = "US"
    /\ Answered(MetalAnswers[cat].confirming_answer)

\* C23: a steel or aluminum tariff evaluated when no HTS-based Section 232
\* applies, with a non-zero declared percentage p and neither the USMCA nor
\* the US melt/cast exemption satisfied, is charged rate x (p / 100) x value,
\* for every origin; a declared percentage of 0, or none, gives not
\* applicable with final_amount 0.
C23_MetalApportioned ==
    Returned /\ ~HtsVerdictApplies
    => \A r \in ResultsIn(DOMAIN MetalAnswers) :
          /\ Declared(r.category) = 0 => r.excluded /\ r.final_amount = 0
          /\ Declared(r.category) # 0 /\ ~UsmcaSatisfied
             /\ ~UsMeltSatisfied(r.category)
             => r.final_amount
                  = PortionAmount(product_info.value, Declared(r.category),
                                  r.rate)

----------------------------------------------------------------------------
(* C24 *)

\* C24: copper and lumber have no exemption path: a copper or lumber tariff
\* evaluated when no HTS-based Section 232 applies, with a non-zero declared
\* percentage p, is not excluded and is charged rate x (p / 100) x value,
\* for every origin and whatever the other answers.
C24_CopperLumberNeverExempt ==
    Returned /\ ~HtsVerdictApplies
    => \A r \in ResultsIn({"section_232_copper", "section_232_lumber"}) :
          Declared(r.category) # 0
          => /\ ~r.excluded
             /\ r.final_amount
                  = PortionAmount(product_info.value, Declared(r.category),
                                  r.rate)

----------------------------------------------------------------------------
(* C25 *)

\* C25: an automotive or buses tariff is charged value x (base rate -
\* assembly rebate x US assembly share); only automotive from CA or MX with
\* usmca_qualified true is further multiplied by (1 - country USMCA share x
\* US auto content share); the buses amount depends neither on
\* usmca_qualified nor on the origin.
C25_HtsRebateAdjusted ==
    Returned
    => \A r \in ResultsIn(HTS_CATEGORIES) :
          IF r.category = "section_232_automotive" /\ UsmcaSatisfied
          THEN r.final_amount
                 = usmca_automotive_amount(product_info.value, r.rate, Origin)
          ELSE r.final_amount
                 = rebated_automotive_amount(product_info.value, r.rate)

----------------------------------------------------------------------------
(* C26 *)

\* the call was given a reciprocal tariff that neither the origin (a Column 2
\* country) nor a humanitarian donation exempts
ReciprocalDecided ==
    /\ outcome # "idle"
    /\ "ieepa_reciprocal" \in InputCategories
    /\ Origin \notin {"BY", "CU", "KP", "RU"}
    /\ ~Answered("is_humanitarian_donation")

\* the origin is an EU member state, Japan or South Korea
Column1Origin == Origin \in eu_countries \cup {"JP", "KR"}

\* 100 minus the declared percentages of the material categories whose
\* Section 232 verdict of this call was not excluded
Remainder == 100 - total_232_material_pct(answers, section_232_results)

\* C26: for a reciprocal tariff with origin in the EU, JP or KR, humanitarian
\* answer not true and Column-1 rate c supplied: c >= 15 gives excluded with
\* final_amount 0; c < 15 gives not excluded with final_amount = value x
\* (remainder / 100) x (15 - c) / 100.
C26_Column1Rule ==
    ReciprocalDecided /\ Column1Origin
    /\ "column_1_duty_rate" \in DOMAIN answers
    => /\ Returned
       /\ \A r \in ResultsIn({"ieepa_reciprocal"}) :
             IF answers.column_1_duty_rate >= 15
             THEN r.excluded /\ r.final_amount = 0
             ELSE /\ ~r.excluded
                  /\ r.final_amount
                       = PortionAmount(product_info.value, Remainder,
                                       15 - answers.column_1_duty_rate)

----------------------------------------------------------------------------
(* C27 *)

UsContent == Get(answers, "us_content_percentage", 0)

\* the verdict of the remainder rule once the validations are passed
RemainderVerdict(r) ==
    IF UsContent > 20
    THEN r.excluded /\ r.exemption_code = "9903.01.34"
    ELSE IF Answered("is_informational_materials")
    THEN r.excluded /\ r.exemption_code = "9903.01.21"
    ELSE /\ ~r.excluded
         /\ r.final_amount
              = PortionAmount(product_info.value, 100 - AppliedSum, r.rate)

\* C27 as claimed: for a reciprocal tariff with an origin that is neither
\* Column 2 nor EU/JP/KR and humanitarian answer not true, with s the sum of
\* the declared percentages of the material categories whose verdict of the
\* call is not excluded: s <= 100 and 100 - s <= 0 gives excluded with code
\* 9903.01.33; else US content > 20 gives excluded with code 9903.01.34;
\* else a true informational-materials answer gives excluded with code
\* 9903.01.21; else not excluded, final_amount = rate x ((100 - s) / 100) x
\* value.
C27_RemainderRule ==
    ReciprocalDecided /\ ~Column1Origin
    => /\ Returned
       /\ \A r \in ResultsIn({"ieepa_reciprocal"}) :
             IF AppliedSum <= 100 /\ 100 - AppliedSum <= 0
             THEN r.excluded /\ r.exemption_code = "9903.01.33"
             ELSE RemainderVerdict(r)

\* C27 amended: the same, with the two validations in their places: s > 100
\* gives the validation-error verdict before anything else, and, when the
\* remainder is positive, US content > 100 gives the validation-error
\* verdict before the US-content exemption.
C27_RemainderRuleValidated ==
    ReciprocalDecided /\ ~Column1Origin
    => /\ Returned
       /\ \A r \in ResultsIn({"ieepa_reciprocal"}) :
             IF AppliedSum > 100
             THEN IsValidationError(r)
             ELSE IF 100 - AppliedSum <= 0
             THEN r.excluded /\ r.exemption_code = "9903.01.33"
             ELSE IF UsContent > 100
             THEN IsValidationError(r)
             ELSE RemainderVerdict(r)

\* C27's case: a material declared and charged, another declared and not
\* counted, and the reciprocal tariff charged on the remainder
C27_Witness ==
    /\ ReciprocalDecided /\ ~Column1Origin /\ Returned
    /\ 0 < AppliedSum /\ AppliedSum < DeclaredSum /\ AppliedSum < 100
    /\ \E r \in ResultsIn({"ieepa_reciprocal"}) :
          ~r.excluded /\ r.final_amount > 0 /\ r.final_amount < r.amount

----------------------------------------------------------------------------
(* C28 *)

\* C28: whenever the us_content_percentage answer exceeds 100 and the
\* reciprocal tariff is exempted neither by its origin nor as a humanitarian
\* donation, the call returns and the reciprocal verdict is a
\* validation-error verdict, on the EU/JP/KR Column-1 path and with a
\* Section 232 remainder of 0 as on every other path.
C28_UsContentOver100 ==
    ReciprocalDecided /\ UsContent > 100
    => /\ Returned
       /\ \A r \in ResultsIn({"ieepa_reciprocal"}) : IsValidationError(r)

----------------------------------------------------------------------------
(* C29 *)

\* the rules of the catalog for the category of an entry
RulesFor(entry) ==
    {get_exemptions_for_category(entry.category)[i] :
        i \in DOMAIN get_exemptions_for_category(entry.category)}

\* C29: in the catalog path no rule whose effect is NO_EXEMPTION marks a
\* tariff excluded or supplies its exemption_code: an excluded entry carries
\* the code of the Section-232-exempts-reciprocal rule or of a rule of its
\* category whose effect is EXEMPT.
C29_OnlyExemptRulesExclude ==
    BothEvaluated
    => \A i \in DOMAIN catalog.stackingOrder :
          LET entry == catalog.stackingOrder[i]
          IN  /\ entry.excluded
                 => \E rule \in RulesFor(entry) :
                       /\ rule.effect = "EXEMPT"
                       /\ rule.code = entry.exemption_code
              /\ ~\E rule \in RulesFor(entry) :
                       /\ rule.effect = "NO_EXEMPTION"
                       /\ rule.code = entry.exemption_code

----------------------------------------------------------------------------
(* C30 *)

PercentageKeys ==
    {MaterialKey[c] : c \in DOMAIN MaterialKey} \cup {"us_content_percentage"}

\* every percentage the answers hold lies in 0..100
PercentagesInRange ==
    \A k \in PercentageKeys \cap DOMAIN answers : answers[k] \in 0..100

\* each amount of the list is shipment value x rate
AmountsAreValueTimesRate ==
    \A i \in DOMAIN tariffs :
        tariffs[i].amount = FullAmount(product_info.value, tariffs[i].rate)

\* C30: exemption resolution never increases the duty: in every returned
\* call whose nominal amounts are value x rate and whose percentage answers
\* lie in 0..100, each entry has final_amount <= amount, the endpoint's
\* totalAfter <= totalBefore and savings >= 0.
C30_NeverIncreasesDuty ==
    Returned /\ AmountsAreValueTimesRate /\ PercentagesInRange
    => /\ \A i \in DOMAIN results : results[i].final_amount <= results[i].amount
       /\ FloatLeq(response.totalAfter, response.totalBefore)
       /\ FloatLeq(Zero, response.savings)

====
